---- MODULE Spec2Model ----
(***************************************************************************)
(* Model of the match-blast core: BoardModel (grid algorithms), GameState  *)
(* (turn counters), the Teleport / Bomb / MegaBomb controllers, the        *)
(* BoardFiller view bookkeeping that decides when an acknowledgement is    *)
(* delivered, and GameController (input dispatch and end-of-turn           *)
(* pipeline).                                                              *)
(*                                                                         *)
(* The board, the palette, the turn budget and the mega-bomb threshold are *)
(* scaled down from AppConfig.ts (9x9, five colours, 20 moves, target 500, *)
(* threshold 5) so that the state space is finite and small; minGroupSize, *)
(* baseScorePerTile and bombRadius keep their configured values.           *)
(***************************************************************************)
EXTENDS Integers, Sequences, FiniteSets, TLC

\* ---------------------------------------------------------------- config
\* BoardConfig.rows / BoardConfig.cols, scaled down.
Rows == 2
Cols == 2

\* GameConfig (rule constants, as configured).
MinGroupSize == 2
BaseScorePerTile == 10
BombRadius == 1

\* GameConfig (scaled down).
MegaBombMinGroupSize == 3
StartMoves == 2
TargetScore == 50
ReshuffleLimit == 1
StartTeleports == 1
StartBombs == 1

\* Largest number of completion callbacks the view layer may hold at one time.
MaxPending == 2

\* Board of the single-game specification SpecWide.
WideRows == 2
WideCols == 3

\* Board of the specification SpecRestart: a single row of two tiles.
RestartRows == 1
RestartCols == 2

\* Board of the specification SpecBoard, which exercises BoardModel alone.
BoardRows == 3
BoardCols == 2

\* Board of the specification SpecParts, which exercises BombController,
\* MegaBombController and the bounds checks of BoardModel.
PartsRows == 2
PartsCols == 2

\* TileColor / TILE_COLORS (palette scaled down to two colours).
MegaBomb == "megaBomb"
Null == "null"
TILE_COLORS == <<"green", "blue">>
Palette == {TILE_COLORS[i] : i \in 1..Len(TILE_COLORS)}

\* TileSpecial
SpecialNone == "none"
SpecialMegaBomb == "mega_bomb"

Cell == Palette \cup {MegaBomb, Null}

\* ------------------------------------------------------------ BoardModel
\* A board is a record [rows, cols, grid, specialGrid]; grid and specialGrid
\* are functions over the positions <<row, col>> of the board.

Positions(rows, cols) == (0..(rows - 1)) \X (0..(cols - 1))

PosOf(b) == Positions(b.rows, b.cols)

inBounds(b, row, col) == row >= 0 /\ row < b.rows /\ col >= 0 /\ col < b.cols

\* All boards `new BoardModel(rows, cols, colors)` + randomFill() can produce.
randomFill(rows, cols) ==
  { [rows |-> rows, cols |-> cols, grid |-> g,
     specialGrid |-> [p \in Positions(rows, cols) |-> SpecialNone]]
    : g \in [Positions(rows, cols) -> Palette] }

\* floodFill that never pushes the left neighbour.
RECURSIVE floodFillWithoutLeft(_, _, _, _, _)
floodFillWithoutLeft(b, startColor, stack, visited, group) ==
  IF stack = <<>> THEN group
  ELSE
    LET p == stack[Len(stack)]
        rest == SubSeq(stack, 1, Len(stack) - 1)
        row == p[1]
        col == p[2]
    IN
      IF ~inBounds(b, row, col)
        THEN floodFillWithoutLeft(b, startColor, rest, visited, group)
      ELSE IF p \in visited
        THEN floodFillWithoutLeft(b, startColor, rest, visited, group)
      ELSE IF b.grid[p] # startColor
        THEN floodFillWithoutLeft(b, startColor, rest, visited \cup {p}, group)
      ELSE floodFillWithoutLeft(b, startColor,
                     rest \o << <<row - 1, col>>, <<row + 1, col>>,
                                <<row, col + 1>> >>,
                     visited \cup {p}, Append(group, p))

RECURSIVE floodFill(_, _, _, _, _)
floodFill(b, startColor, stack, visited, group) ==
  IF stack = <<>> THEN group
  ELSE
    LET p == stack[Len(stack)]
        rest == SubSeq(stack, 1, Len(stack) - 1)
        row == p[1]
        col == p[2]
    IN
      IF ~inBounds(b, row, col) THEN floodFill(b, startColor, rest, visited, group)
      ELSE IF p \in visited THEN floodFill(b, startColor, rest, visited, group)
      ELSE IF b.grid[p] # startColor
        THEN floodFill(b, startColor, rest, visited \cup {p}, group)
      ELSE floodFill(b, startColor,
                     rest \o << <<row - 1, col>>, <<row + 1, col>>,
                                <<row, col - 1>>, <<row, col + 1>> >>,
                     visited \cup {p}, Append(group, p))

\* findGroup returns the group as a sequence of positions (the code's array).
findGroup(b, startRow, startCol) ==
  IF ~inBounds(b, startRow, startCol) THEN <<>>
  ELSE IF b.grid[<<startRow, startCol>>] = Null THEN <<>>
  ELSE floodFill(b, b.grid[<<startRow, startCol>>], << <<startRow, startCol>> >>,
                 {}, <<>>)

SeqToSet(s) == {s[i] : i \in 1..Len(s)}

\* removeGroup emptying the nearest cell of the board for an entry outside it.
removeGroupClamping(b, group) ==
  LET clamp(x, n) == IF x < 0 THEN 0 ELSE IF x >= n THEN n - 1 ELSE x
      cells == {<<clamp(p[1], b.rows), clamp(p[2], b.cols)>> : p \in SeqToSet(group)}
  IN [b EXCEPT
        !.grid = [p \in PosOf(b) |-> IF p \in cells THEN Null ELSE b.grid[p]],
        !.specialGrid = [p \in PosOf(b) |-> IF p \in cells THEN SpecialNone
                                            ELSE b.specialGrid[p]]]

removeGroup(b, group) ==
  LET cells == {p \in SeqToSet(group) : inBounds(b, p[1], p[2])}
  IN [b EXCEPT
        !.grid = [p \in PosOf(b) |-> IF p \in cells THEN Null ELSE b.grid[p]],
        !.specialGrid = [p \in PosOf(b) |-> IF p \in cells THEN SpecialNone
                                            ELSE b.specialGrid[p]]]

\* One column of applyGravity: the bottom-up walk, then the clearing loop.
\* st is [board, movements].
RECURSIVE clearAbove(_, _, _)
clearAbove(st, col, row) ==
  IF row < 0 THEN st
  ELSE clearAbove([st EXCEPT !.board.grid[<<row, col>>] = Null,
                             !.board.specialGrid[<<row, col>>] = SpecialNone],
                  col, row - 1)

\* gravityColumn that does not advance writeRow after moving a tile.
RECURSIVE gravityColumnStuckWriteRow(_, _, _, _)
gravityColumnStuckWriteRow(st, col, row, writeRow) ==
  IF row < 0 THEN clearAbove(st, col, writeRow)
  ELSE
    LET color == st.board.grid[<<row, col>>] IN
    IF color # Null THEN
      IF writeRow # row THEN
        gravityColumnStuckWriteRow(
          [board |-> [st.board EXCEPT
                        !.grid[<<writeRow, col>>] = color,
                        !.grid[<<row, col>>] = Null,
                        !.specialGrid[<<writeRow, col>>] = st.board.specialGrid[<<row, col>>],
                        !.specialGrid[<<row, col>>] = SpecialNone],
           movements |-> Append(st.movements,
                                [from |-> <<row, col>>, to |-> <<writeRow, col>>,
                                 color |-> color])],
          col, row - 1, writeRow)
      ELSE gravityColumnStuckWriteRow(st, col, row - 1, writeRow - 1)
    ELSE gravityColumnStuckWriteRow(st, col, row - 1, writeRow)

\* gravityColumn reporting a movement for the tiles that stay in place too.
RECURSIVE gravityColumnReportingAll(_, _, _, _)
gravityColumnReportingAll(st, col, row, writeRow) ==
  IF row < 0 THEN clearAbove(st, col, writeRow)
  ELSE
    LET color == st.board.grid[<<row, col>>] IN
    IF color # Null THEN
      IF writeRow # row THEN
        gravityColumnReportingAll(
          [board |-> [st.board EXCEPT
                        !.grid[<<writeRow, col>>] = color,
                        !.grid[<<row, col>>] = Null,
                        !.specialGrid[<<writeRow, col>>] = st.board.specialGrid[<<row, col>>],
                        !.specialGrid[<<row, col>>] = SpecialNone],
           movements |-> Append(st.movements,
                                [from |-> <<row, col>>, to |-> <<writeRow, col>>,
                                 color |-> color])],
          col, row - 1, writeRow - 1)
      ELSE gravityColumnReportingAll(
             [st EXCEPT !.movements =
                Append(@, [from |-> <<row, col>>, to |-> <<row, col>>, color |-> color])],
             col, row - 1, writeRow - 1)
    ELSE gravityColumnReportingAll(st, col, row - 1, writeRow)

RECURSIVE gravityColumn(_, _, _, _)
gravityColumn(st, col, row, writeRow) ==
  IF row < 0 THEN clearAbove(st, col, writeRow)
  ELSE
    LET color == st.board.grid[<<row, col>>] IN
    IF color # Null THEN
      IF writeRow # row THEN
        gravityColumn(
          [board |-> [st.board EXCEPT
                        !.grid[<<writeRow, col>>] = color,
                        !.grid[<<row, col>>] = Null,
                        !.specialGrid[<<writeRow, col>>] = st.board.specialGrid[<<row, col>>],
                        !.specialGrid[<<row, col>>] = SpecialNone],
           movements |-> Append(st.movements,
                                [from |-> <<row, col>>, to |-> <<writeRow, col>>,
                                 color |-> color])],
          col, row - 1, writeRow - 1)
      ELSE gravityColumn(st, col, row - 1, writeRow - 1)
    ELSE gravityColumn(st, col, row - 1, writeRow)

RECURSIVE gravityFrom(_, _)
gravityFrom(st, col) ==
  IF col >= st.board.cols THEN st
  ELSE gravityFrom(gravityColumn(st, col, st.board.rows - 1, st.board.rows - 1),
                   col + 1)

\* applyGravity returns [board, movements].
applyGravity(b) == gravityFrom([board |-> b, movements |-> <<>>], 0)

\* Positions in the order of the nested row/col loops.
RowMajor(b) ==
  [i \in 1..(b.rows * b.cols) |-> <<(i - 1) \div b.cols, (i - 1) % b.cols>>]

emptyCells(b) == {p \in PosOf(b) : b.grid[p] = Null}

\* refillEmptyCells without the test for an empty cell: every cell is given a
\* new regular tile (the first palette colour where no draw is supplied).
refillEmptyCellsOverwriting(b, draw) ==
  LET color(p) == IF b.grid[p] = Null THEN draw[p] ELSE TILE_COLORS[1]
  IN [board |-> [b EXCEPT
                   !.grid = [p \in PosOf(b) |-> color(p)],
                   !.specialGrid = [p \in PosOf(b) |-> SpecialNone]],
      refilled |-> [i \in 1..Len(RowMajor(b)) |->
                      [pos |-> RowMajor(b)[i], color |-> color(RowMajor(b)[i])]]]

\* refillEmptyCells whose palette also holds the MegaBomb marker: the first
\* empty cell in row-major order is filled with it.
refillEmptyCellsWithMegaBombs(b, draw) ==
  LET holes == SelectSeq(RowMajor(b), LAMBDA p : b.grid[p] = Null)
      color(p) == IF holes # <<>> /\ p = holes[1] THEN MegaBomb ELSE draw[p]
  IN [board |-> [b EXCEPT
                   !.grid = [p \in PosOf(b) |-> IF b.grid[p] = Null THEN color(p)
                                                ELSE b.grid[p]],
                   !.specialGrid = [p \in PosOf(b) |-> IF b.grid[p] = Null
                                                       THEN SpecialNone
                                                       ELSE b.specialGrid[p]]],
      refilled |-> [i \in 1..Len(holes) |->
                      [pos |-> holes[i], color |-> color(holes[i])]]]

\* refillEmptyCells with the random draws given as a function from the empty
\* cells to palette colours; returns [board, refilled].
refillEmptyCells(b, draw) ==
  LET holes == SelectSeq(RowMajor(b), LAMBDA p : b.grid[p] = Null)
  IN [board |-> [b EXCEPT
                   !.grid = [p \in PosOf(b) |-> IF b.grid[p] = Null THEN draw[p]
                                                ELSE b.grid[p]],
                   !.specialGrid = [p \in PosOf(b) |-> IF b.grid[p] = Null
                                                       THEN SpecialNone
                                                       ELSE b.specialGrid[p]]],
      refilled |-> [i \in 1..Len(holes) |->
                      [pos |-> holes[i], color |-> draw[holes[i]]]]]

\* hasAnyMoves that looks at the right neighbour only.
hasAnyMovesRightOnly(b, minGroupSize) ==
  IF minGroupSize <= 1 THEN TRUE
  ELSE \E p \in PosOf(b) :
         /\ b.grid[p] # Null
         /\ inBounds(b, p[1], p[2] + 1) /\ b.grid[<<p[1], p[2] + 1>>] = b.grid[p]

hasAnyMoves(b, minGroupSize) ==
  IF minGroupSize <= 1 THEN TRUE
  ELSE \E p \in PosOf(b) :
         /\ b.grid[p] # Null
         /\ \/ inBounds(b, p[1] + 1, p[2]) /\ b.grid[<<p[1] + 1, p[2]>>] = b.grid[p]
            \/ inBounds(b, p[1], p[2] + 1) /\ b.grid[<<p[1], p[2] + 1>>] = b.grid[p]

\* swapTiles writing a's tile over c without keeping c's.
swapTilesOverwriting(b, a, c) ==
  IF ~inBounds(b, a[1], a[2]) \/ ~inBounds(b, c[1], c[2]) THEN b
  ELSE [b EXCEPT !.grid = [b.grid EXCEPT ![c] = b.grid[a]],
                 !.specialGrid = [b.specialGrid EXCEPT ![c] = b.specialGrid[a]]]

swapTiles(b, a, c) ==
  IF ~inBounds(b, a[1], a[2]) \/ ~inBounds(b, c[1], c[2]) THEN b
  ELSE [b EXCEPT !.grid = [b.grid EXCEPT ![a] = b.grid[c], ![c] = b.grid[a]],
                 !.specialGrid = [b.specialGrid EXCEPT ![a] = b.specialGrid[c],
                                                       ![c] = b.specialGrid[a]]]

\* ------------------------------------------------------------- GameState
\* GameStateData as a record; gameOverReason is "win", "lose" or Null.

newGameState ==
  [score |-> 0, movesLeft |-> StartMoves, targetScore |-> TargetScore,
   gameOver |-> FALSE, gameOverReason |-> Null,
   reshufflesLeft |-> ReshuffleLimit, bombsLeft |-> StartBombs,
   teleportsLeft |-> StartTeleports]

\* canRemoveGroup without the minGroupSize test.
canRemoveGroupOfAnySize(d, size) ==
  IF d.gameOver THEN FALSE ELSE TRUE

canRemoveGroup(d, size) ==
  IF d.gameOver THEN FALSE ELSE size >= MinGroupSize

\* updateGameOver testing the moves before the score.
updateGameOverLoseFirst(d) ==
  IF d.gameOver THEN d
  ELSE IF d.movesLeft <= 0
    THEN [d EXCEPT !.gameOver = TRUE, !.gameOverReason = "lose"]
  ELSE IF d.score >= d.targetScore
    THEN [d EXCEPT !.gameOver = TRUE, !.gameOverReason = "win"]
  ELSE d

updateGameOver(d) ==
  IF d.gameOver THEN d
  ELSE IF d.score >= d.targetScore
    THEN [d EXCEPT !.gameOver = TRUE, !.gameOverReason = "win"]
  ELSE IF d.movesLeft <= 0
    THEN [d EXCEPT !.gameOver = TRUE, !.gameOverReason = "lose"]
  ELSE d

\* applyGroup without the movesLeft decrement.
applyGroupKeepingMoves(d, size) ==
  IF ~canRemoveGroup(d, size) THEN [data |-> d, gained |-> 0]
  ELSE LET gained == size * BaseScorePerTile
       IN [data |-> updateGameOver([d EXCEPT !.score = @ + gained]),
           gained |-> gained]

\* applyGroup / applyBomb return [data, gained].
applyGroup(d, size) ==
  IF ~canRemoveGroup(d, size) THEN [data |-> d, gained |-> 0]
  ELSE LET gained == size * BaseScorePerTile
       IN [data |-> updateGameOver([d EXCEPT !.score = @ + gained,
                                             !.movesLeft = @ - 1]),
           gained |-> gained]

\* applyBomb without the gameOver guard.
applyBombAfterGameOver(d, count) ==
  IF count <= 0 THEN [data |-> d, gained |-> 0]
  ELSE LET gained == count * BaseScorePerTile
       IN [data |-> updateGameOver([d EXCEPT !.score = @ + gained]),
           gained |-> gained]

\* applyBomb adding the score without re-evaluating the end of the game.
applyBombWithoutEndCheck(d, count) ==
  IF d.gameOver \/ count <= 0 THEN [data |-> d, gained |-> 0]
  ELSE LET gained == count * BaseScorePerTile
       IN [data |-> [d EXCEPT !.score = @ + gained], gained |-> gained]

applyBomb(d, count) ==
  IF d.gameOver \/ count <= 0 THEN [data |-> d, gained |-> 0]
  ELSE LET gained == count * BaseScorePerTile
       IN [data |-> updateGameOver([d EXCEPT !.score = @ + gained]),
           gained |-> gained]

canUseReshuffle(d) == IF d.gameOver THEN FALSE ELSE d.reshufflesLeft > 0

\* useReshuffle / useBomb / useTeleport return [ok, data].
\* useReshuffle granting the regeneration without taking a charge.
useReshuffleWithoutCharge(d) ==
  IF d.gameOver THEN [ok |-> FALSE, data |-> d]
  ELSE [ok |-> TRUE, data |-> d]

useReshuffle(d) ==
  IF ~canUseReshuffle(d) THEN [ok |-> FALSE, data |-> d]
  ELSE [ok |-> TRUE, data |-> [d EXCEPT !.reshufflesLeft = @ - 1]]

canUseBomb(d) == IF d.gameOver THEN FALSE ELSE d.bombsLeft > 0

\* useBomb without the canUseBomb test.
useBombUnchecked(d) ==
  [ok |-> TRUE, data |-> [d EXCEPT !.bombsLeft = @ - 1]]

useBomb(d) ==
  IF ~canUseBomb(d) THEN [ok |-> FALSE, data |-> d]
  ELSE [ok |-> TRUE, data |-> [d EXCEPT !.bombsLeft = @ - 1]]

canUseTeleport(d) == IF d.gameOver THEN FALSE ELSE d.teleportsLeft > 0

useTeleport(d) ==
  IF ~canUseTeleport(d) THEN [ok |-> FALSE, data |-> d]
  ELSE [ok |-> TRUE, data |-> [d EXCEPT !.teleportsLeft = @ - 1]]

\* ----------------------------------------------------- TeleportController
\* [active, first]; first is a position or NoPos (null).
NoPos == <<-1, -1>>

teleportReset(tc) == [active |-> FALSE, first |-> NoPos]

\* toggle that switches the mode on whatever it was.
teleportToggleAlwaysOn(tc) == [active |-> TRUE, first |-> NoPos]

teleportToggle(tc) == [active |-> ~tc.active, first |-> NoPos]

abs(x) == IF x < 0 THEN -x ELSE x

\* isNeighbor counting diagonal cells as neighbours.
isNeighborWithDiagonals(a, c) ==
  a # c /\ abs(a[1] - c[1]) <= 1 /\ abs(a[2] - c[2]) <= 1

isNeighbor(a, c) == abs(a[1] - c[1]) + abs(a[2] - c[2]) = 1

\* handleClick returns [controller, board, type, from, to]; type "none" is the
\* code's null result, and select/deselect carry their position in `to`.
teleportHandleClick(tc, b, pos) ==
  IF ~tc.active
    THEN [controller |-> tc, board |-> b, type |-> "none", from |-> NoPos, to |-> NoPos]
  ELSE IF tc.first = NoPos
    THEN [controller |-> [tc EXCEPT !.first = pos], board |-> b,
          type |-> "select", from |-> NoPos, to |-> pos]
  ELSE IF tc.first = pos
    THEN [controller |-> [tc EXCEPT !.first = NoPos], board |-> b,
          type |-> "deselect", from |-> NoPos, to |-> tc.first]
  ELSE IF ~isNeighbor(tc.first, pos)
    THEN [controller |-> [tc EXCEPT !.first = pos], board |-> b,
          type |-> "reselect", from |-> tc.first, to |-> pos]
  ELSE [controller |-> [active |-> FALSE, first |-> NoPos],
        board |-> swapTiles(b, tc.first, pos),
        type |-> "swap", from |-> tc.first, to |-> pos]

\* --------------------------------------------------------- BombController
\* [active]; the radius is the configured BombRadius.
bombReset(bc) == [active |-> FALSE]

bombToggle(bc) == [active |-> ~bc.active]

\* The square of side 2R+1 around (r0, c0) in the order of the nested loops.
bombSquare(r0, c0, R) ==
  [i \in 1..((2 * R + 1) * (2 * R + 1)) |->
     <<r0 - R + ((i - 1) \div (2 * R + 1)), c0 - R + ((i - 1) % (2 * R + 1))>>]

\* handleClick collecting the cells within Manhattan distance R.
bombHandleClickDiamond(bc, b, row, col) ==
  IF ~bc.active THEN [controller |-> bc, cells |-> <<>>]
  ELSE [controller |-> [active |-> FALSE],
        cells |-> SelectSeq(bombSquare(row, col, BombRadius),
                            LAMBDA p : /\ inBounds(b, p[1], p[2])
                                       /\ b.grid[p] # Null
                                       /\ abs(p[1] - row) + abs(p[2] - col) <= BombRadius)]

\* handleClick leaving the mode active when it finds no cell to remove.
bombHandleClickKeepingEmptyMode(bc, b, row, col) ==
  IF ~bc.active THEN [controller |-> bc, cells |-> <<>>]
  ELSE
    LET cells == SelectSeq(bombSquare(row, col, BombRadius),
                           LAMBDA p : inBounds(b, p[1], p[2]) /\ b.grid[p] # Null)
    IN [controller |-> [active |-> cells = <<>>], cells |-> cells]

\* handleClick returns [controller, cells].
bombHandleClick(bc, b, row, col) ==
  IF ~bc.active THEN [controller |-> bc, cells |-> <<>>]
  ELSE [controller |-> [active |-> FALSE],
        cells |-> SelectSeq(bombSquare(row, col, BombRadius),
                            LAMBDA p : inBounds(b, p[1], p[2]) /\ b.grid[p] # Null)]

\* ----------------------------------------------------- MegaBombController
canCreateFromSize(size) == size >= MegaBombMinGroupSize

isMegaBomb(b, row, col) == b.grid[<<row, col>>] = MegaBomb

\* createFromGroup reporting the whole group, center included, as removed.
createFromGroupReportingCenter(b, group, center) ==
  IF Len(group) < MegaBombMinGroupSize
    THEN [created |-> FALSE, removedCells |-> <<>>, board |-> b]
  ELSE
    LET withoutCenter == SelectSeq(group, LAMBDA p : p # center)
        rb == removeGroup(b, withoutCenter)
    IN [created |-> TRUE, removedCells |-> group,
        board |-> [rb EXCEPT !.grid[center] = MegaBomb]]

\* createFromGroup marking the center without removing the rest of the group.
createFromGroupKeepingGroup(b, group, center) ==
  IF Len(group) < MegaBombMinGroupSize
    THEN [created |-> FALSE, removedCells |-> <<>>, board |-> b]
  ELSE
    LET withoutCenter == SelectSeq(group, LAMBDA p : p # center)
    IN [created |-> TRUE, removedCells |-> withoutCenter,
        board |-> [b EXCEPT !.grid[center] = MegaBomb]]

\* createFromGroup marking the center even when the group is too small.
createFromGroupMarkingAlways(b, group, center) ==
  IF Len(group) < MegaBombMinGroupSize
    THEN [created |-> FALSE, removedCells |-> <<>>,
          board |-> [b EXCEPT !.grid[center] = MegaBomb]]
  ELSE
    LET withoutCenter == SelectSeq(group, LAMBDA p : p # center)
        rb == removeGroup(b, withoutCenter)
    IN [created |-> TRUE, removedCells |-> withoutCenter,
        board |-> [rb EXCEPT !.grid[center] = MegaBomb]]

\* createFromGroup returns [created, removedCells, board].
createFromGroup(b, group, center) ==
  IF Len(group) < MegaBombMinGroupSize
    THEN [created |-> FALSE, removedCells |-> <<>>, board |-> b]
  ELSE
    LET withoutCenter == SelectSeq(group, LAMBDA p : p # center)
        rb == removeGroup(b, withoutCenter)
    IN [created |-> TRUE, removedCells |-> withoutCenter,
        board |-> [rb EXCEPT !.grid[center] = MegaBomb]]

\* explode sparing the clicked bomb itself.
explodeKeepingBomb(b, row, col) ==
  IF b.grid[<<row, col>>] # MegaBomb
    THEN [exploded |-> FALSE, removedCells |-> <<>>, totalTiles |-> 0, board |-> b]
  ELSE
    LET removed == SelectSeq(RowMajor(b),
                             LAMBDA p : b.grid[p] # Null /\ p # <<row, col>>)
    IN IF Len(removed) = 0
         THEN [exploded |-> FALSE, removedCells |-> <<>>, totalTiles |-> 0, board |-> b]
       ELSE [exploded |-> TRUE, removedCells |-> removed,
             totalTiles |-> Len(removed), board |-> removeGroup(b, removed)]

\* explode returns [exploded, removedCells, totalTiles, board]; exploded = FALSE
\* is the code's null result.
explode(b, row, col) ==
  IF b.grid[<<row, col>>] # MegaBomb
    THEN [exploded |-> FALSE, removedCells |-> <<>>, totalTiles |-> 0, board |-> b]
  ELSE
    LET removed == SelectSeq(RowMajor(b), LAMBDA p : b.grid[p] # Null)
    IN IF Len(removed) = 0
         THEN [exploded |-> FALSE, removedCells |-> <<>>, totalTiles |-> 0, board |-> b]
       ELSE [exploded |-> TRUE, removedCells |-> removed,
             totalTiles |-> Len(removed), board |-> removeGroup(b, removed)]

\* ------------------------------------------------------------ BoardFiller
\* Only the occupancy of viewGrid is modelled (TRUE = a TileView is stored at
\* the cell): it decides whether an animation has anything to wait for.

renderFromGrid(g) == [p \in DOMAIN g |-> g[p] # Null]

getTileView(vg, row, col) == <<row, col>> \in DOMAIN vg /\ vg[<<row, col>>]

\* removeTileViews returns [viewGrid, async]; async = FALSE means onComplete ran
\* inside the call.
removeTileViews(vg, cells) ==
  LET views == {p \in SeqToSet(cells) : getTileView(vg, p[1], p[2])}
  IN [viewGrid |-> [p \in DOMAIN vg |-> IF p \in views THEN FALSE ELSE vg[p]],
      async |-> views # {}]

RECURSIVE moveViews(_, _, _, _)
moveViews(vg, movements, i, moved) ==
  IF i > Len(movements) THEN [viewGrid |-> vg, moved |-> moved]
  ELSE LET m == movements[i] IN
       IF ~getTileView(vg, m.from[1], m.from[2])
         THEN moveViews(vg, movements, i + 1, moved)
       ELSE moveViews([vg EXCEPT ![m.to] = TRUE, ![m.from] = FALSE],
                      movements, i + 1, moved + 1)

\* applyGravityAndRefillAnimations returns [viewGrid, async].
applyGravityAndRefillAnimations(vg, movements, refills) ==
  LET mv == moveViews(vg, movements, 1, 0)
      spawned == {refills[i].pos : i \in 1..Len(refills)}
  IN [viewGrid |-> [p \in DOMAIN vg |-> IF p \in spawned THEN TRUE ELSE mv.viewGrid[p]],
      async |-> mv.moved + Len(refills) > 0]

\* ---------------------------------------------------------- GameController
VARIABLES
  initialized,         \* boardModel and gameState are non-null
  boardModel,          \* [grid, specialGrid]
  data,                \* gameState.data
  teleportController,  \* [active, first]
  bombController,      \* [active]
  isAnimating,
  viewGrid,            \* BoardFiller.viewGrid occupancy
  pending,             \* completion callbacks the view layer still holds
  calls,               \* collaborator calls made by the last handler that did
                       \* anything, in order
  winCalls,            \* onWin invocations since the last initNewGame
  loseCalls,           \* onLose invocations since the last initNewGame
  spent                \* what the current game has done so far: regenerations,
                       \* group removals, bomb explosions, teleport swaps

vars == <<initialized, boardModel, data, teleportController, bombController,
          isAnimating, viewGrid, pending, calls, winCalls, loseCalls, spent>>

\* Nothing done yet in this game.
NoneSpent == [reshuffles |-> 0, removals |-> 0, bombs |-> 0, swaps |-> 0]

\* The controller state as one record, so that handlers compose as functions.
Cur ==
  [initialized |-> initialized, boardModel |-> boardModel, data |-> data,
   teleportController |-> teleportController, bombController |-> bombController,
   isAnimating |-> isAnimating, viewGrid |-> viewGrid, pending |-> pending,
   calls |-> <<>>, winCalls |-> winCalls, loseCalls |-> loseCalls,
   spent |-> spent]

\* A logged collaborator call: one of the callbacks onWin, onLose, onNoMoves,
\* onBombsChanged, onTeleportsChanged with its numeric argument, or the
\* removeTileViews request with the cells it carries.  The other render
\* requests (full render, selection toggles, effects) carry nothing the
\* controller reads back and are not logged.
Call(name, n, cells) == [name |-> name, n |-> n, cells |-> cells]

log(s, name, n, cells) == [s EXCEPT !.calls = Append(@, Call(name, n, cells))]

\* A completion callback held by the view layer.  kind "remove" continues with
\* afterRemove, "gravity" with finalize, "swap" with onDone (finished counts the
\* onDone calls so far).  stale marks callbacks issued before the last
\* initNewGame.
Callback(kind, updateBombs, finished) ==
  [kind |-> kind, updateBombs |-> updateBombs, finished |-> finished, stale |-> FALSE]

dropAt(seq, i) == SubSeq(seq, 1, i - 1) \o SubSeq(seq, i + 1, Len(seq))

\* isGameInteractive without the isAnimating conjunct.
isGameInteractiveIgnoringAnimation(s) == s.initialized /\ ~s.data.gameOver

isGameInteractive(s) == s.initialized /\ ~s.data.gameOver /\ ~s.isAnimating

checkGameOver(s) ==
  IF ~s.initialized \/ ~s.data.gameOver THEN s
  ELSE IF s.data.gameOverReason = "win"
    THEN [log(s, "onWin", 0, {}) EXCEPT !.winCalls = @ + 1]
  ELSE IF s.data.gameOverReason = "lose"
    THEN [log(s, "onLose", 0, {}) EXCEPT !.loseCalls = @ + 1]
  ELSE s

\* forceLoseByNoMoves ending the game without recording the reason.
forceLoseByNoMovesWithoutReason(s) ==
  IF ~s.initialized THEN s
  ELSE IF s.data.gameOver THEN s
  ELSE checkGameOver([s EXCEPT !.data.gameOver = TRUE])

forceLoseByNoMoves(s) ==
  IF ~s.initialized THEN s
  ELSE IF s.data.gameOver THEN s
  ELSE checkGameOver([s EXCEPT !.data.gameOver = TRUE,
                               !.data.gameOverReason = "lose"])

\* ensureHasMoves that offers the reshuffle dialog whenever the board is
\* stuck, without looking at the reshuffles left.
ensureHasMovesAlwaysAsking(s) ==
  IF ~s.initialized THEN s
  ELSE IF s.data.gameOver THEN s
  ELSE IF hasAnyMoves(s.boardModel, MinGroupSize) THEN s
  ELSE log(s, "onNoMoves", s.data.reshufflesLeft, {})

ensureHasMoves(s) ==
  IF ~s.initialized THEN s
  ELSE IF s.data.gameOver THEN s
  ELSE IF hasAnyMoves(s.boardModel, MinGroupSize) THEN s
  ELSE IF ~canUseReshuffle(s.data) THEN forceLoseByNoMoves(s)
  ELSE log(s, "onNoMoves", s.data.reshufflesLeft, {})

\* reshuffleBoard without the two controller resets.
reshuffleBoardKeepingModes(s, b) ==
  IF ~s.initialized THEN s
  ELSE IF s.data.gameOver THEN s
  ELSE [s EXCEPT
          !.boardModel = b,
          !.viewGrid = renderFromGrid(b.grid)]

\* reshuffleBoard that also starts the game state afresh, as initNewGame does.
reshuffleBoardAsNewGame(s, b) ==
  IF ~s.initialized THEN s
  ELSE IF s.data.gameOver THEN s
  ELSE [s EXCEPT
          !.boardModel = b,
          !.data = newGameState,
          !.viewGrid = renderFromGrid(b.grid),
          !.teleportController = teleportReset(@),
          !.bombController = bombReset(@)]

\* reshuffleBoard with the regenerated board b given.
reshuffleBoard(s, b) ==
  IF ~s.initialized THEN s
  ELSE IF s.data.gameOver THEN s
  ELSE [s EXCEPT
          !.spent.reshuffles = @ + 1,
          !.boardModel = b,
          !.viewGrid = renderFromGrid(b.grid),
          !.teleportController = teleportReset(@),
          !.bombController = bombReset(@)]

\* The finalize closure of applyBoardChangesAndEndTurn.
\* finalize leaving the controller in Animating.
finalizeStillAnimating(s, updateBombs) ==
  LET s1 == IF updateBombs THEN log(s, "onBombsChanged", s.data.bombsLeft, {}) ELSE s
  IN checkGameOver(ensureHasMoves(s1))

finalize(s, updateBombs) ==
  LET s1 == IF updateBombs THEN log(s, "onBombsChanged", s.data.bombsLeft, {}) ELSE s
      s2 == checkGameOver(ensureHasMoves(s1))
  IN [s2 EXCEPT !.isAnimating = FALSE]

\* The afterRemove closure: the set of states it can end in, one per outcome of
\* the random refill.
\* afterRemove refilling the empty cells before applying gravity.
afterRemoveRefillFirst(s, updateBombs) ==
  { LET rf == refillEmptyCells(s.boardModel, draw)
        gr == applyGravity(rf.board)
        anim == applyGravityAndRefillAnimations(s.viewGrid, gr.movements, rf.refilled)
        s1 == [s EXCEPT !.boardModel = gr.board, !.viewGrid = anim.viewGrid]
    IN IF anim.async
         THEN [s1 EXCEPT !.pending = Append(@, Callback("gravity", updateBombs, 0))]
       ELSE finalize(s1, updateBombs)
    : draw \in [emptyCells(s.boardModel) -> Palette] }

afterRemove(s, updateBombs) ==
  LET gr == applyGravity(s.boardModel) IN
  { LET rf == refillEmptyCells(gr.board, draw)
        anim == applyGravityAndRefillAnimations(s.viewGrid, gr.movements, rf.refilled)
        s1 == [s EXCEPT !.boardModel = rf.board, !.viewGrid = anim.viewGrid]
    IN IF anim.async
         THEN [s1 EXCEPT !.pending = Append(@, Callback("gravity", updateBombs, 0))]
       ELSE finalize(s1, updateBombs)
    : draw \in [emptyCells(gr.board) -> Palette] }

applyBoardChangesAndEndTurn(s, updateBombs, removed) ==
  IF ~s.initialized THEN {s}
  ELSE
    LET s1 == [s EXCEPT !.isAnimating = TRUE] IN
    IF Len(removed) > 0 THEN
      LET rv == removeTileViews(s1.viewGrid, removed)
          s2 == [log(s1, "removeTileViews", Len(removed), SeqToSet(removed))
                   EXCEPT !.viewGrid = rv.viewGrid]
      IN IF rv.async
           THEN {[s2 EXCEPT !.pending = Append(@, Callback("remove", updateBombs, 0))]}
         ELSE afterRemove(s2, updateBombs)
    ELSE afterRemove(s1, updateBombs)

handleNormalTileClick(s, pos) ==
  LET group == findGroup(s.boardModel, pos[1], pos[2])
      size == Len(group)
  IN
    IF ~canRemoveGroup(s.data, size) THEN {s}
    ELSE
      LET s1 == [s EXCEPT !.data = applyGroup(s.data, size).data,
                          !.spent.removals = @ + 1]
          res == createFromGroup(s1.boardModel, group, pos)
      IN IF canCreateFromSize(size) /\ res.created
           THEN applyBoardChangesAndEndTurn(
                  [s1 EXCEPT !.boardModel = res.board],
                  FALSE, res.removedCells)
         ELSE applyBoardChangesAndEndTurn(
                [s1 EXCEPT !.boardModel = removeGroup(s1.boardModel, group)],
                FALSE, group)

handleBombClick(s, pos) ==
  LET hc == bombHandleClick(s.bombController, s.boardModel, pos[1], pos[2])
      size == Len(hc.cells)
      s1 == [s EXCEPT !.bombController = hc.controller]
      used == useBomb(s1.data)
  IN
    IF size = 0 THEN {s1}
    ELSE IF ~used.ok THEN {s1}
    ELSE
      LET s2 == [s1 EXCEPT !.data = applyBomb(used.data, size).data,
                           !.spent.bombs = @ + 1]
      IN applyBoardChangesAndEndTurn(
           [s2 EXCEPT !.boardModel = removeGroup(s2.boardModel, hc.cells)],
           TRUE, hc.cells)

\* handleMegaBombClick ending its turn with updateBombs set, as the bomb
\* booster does.
handleMegaBombClickUpdatingBombs(s, pos) ==
  LET res == explode(s.boardModel, pos[1], pos[2]) IN
    IF ~res.exploded THEN {s}
    ELSE
      LET s1 == [s EXCEPT !.boardModel = res.board,
                          !.teleportController = teleportReset(@),
                          !.bombController = bombReset(@),
                          !.data = applyBomb(s.data, res.totalTiles).data]
      IN applyBoardChangesAndEndTurn(s1, TRUE, res.removedCells)

handleMegaBombClick(s, pos) ==
  LET res == explode(s.boardModel, pos[1], pos[2]) IN
    IF ~res.exploded THEN {s}
    ELSE
      LET s1 == [s EXCEPT !.boardModel = res.board,
                          !.teleportController = teleportReset(@),
                          !.bombController = bombReset(@),
                          !.data = applyBomb(s.data, res.totalTiles).data]
      IN applyBoardChangesAndEndTurn(s1, FALSE, res.removedCells)

\* handleTeleportResult ending a swap through applyBoardChangesAndEndTurn
\* with no removed cells.
handleTeleportResultThroughPipeline(s, pos) ==
  LET hc == teleportHandleClick(s.teleportController, s.boardModel, pos)
      s1 == [s EXCEPT !.teleportController = hc.controller, !.boardModel = hc.board]
  IN
    IF hc.type \in {"none", "select", "deselect", "reselect"} THEN s1
    ELSE
      LET s2 == [s1 EXCEPT !.data = useTeleport(s1.data).data,
                           !.spent.swaps = @ + 1]
          s3 == log(s2, "onTeleportsChanged", s2.data.teleportsLeft, {})
      IN CHOOSE e \in applyBoardChangesAndEndTurn(s3, FALSE, <<>>) : TRUE

\* handleTeleportResult applied to the result of TeleportController.handleClick.
handleTeleportResult(s, pos) ==
  LET hc == teleportHandleClick(s.teleportController, s.boardModel, pos)
      s1 == [s EXCEPT !.teleportController = hc.controller, !.boardModel = hc.board]
  IN
    IF hc.type \in {"none", "select", "deselect", "reselect"} THEN s1
    ELSE
      LET s2 == [s1 EXCEPT !.data = useTeleport(s1.data).data,
                           !.spent.swaps = @ + 1]
          s3 == log(s2, "onTeleportsChanged", s2.data.teleportsLeft, {})
      IN IF ~getTileView(s3.viewGrid, hc.from[1], hc.from[2])
            \/ ~getTileView(s3.viewGrid, hc.to[1], hc.to[2])
           THEN checkGameOver(ensureHasMoves(
                  [s3 EXCEPT !.viewGrid = renderFromGrid(s3.boardModel.grid)]))
         ELSE [s3 EXCEPT
                 !.isAnimating = TRUE,
                 !.pending = Append(@, Callback("swap", FALSE, 0))]

\* The onDone closure of a teleport swap, run for the callback pending[i].
onDone(s, i) ==
  IF s.pending[i].finished + 1 < 2
    THEN [s EXCEPT !.pending[i].finished = @ + 1]
  ELSE
    LET s1 == [s EXCEPT
                 !.pending = dropAt(@, i),
                 !.viewGrid = renderFromGrid(s.boardModel.grid)]
        s2 == checkGameOver(ensureHasMoves(s1))
    IN [s2 EXCEPT !.isAnimating = FALSE]

onTileClick(s, pos) ==
  IF ~isGameInteractive(s) THEN {s}
  ELSE IF s.teleportController.active THEN {handleTeleportResult(s, pos)}
  ELSE IF s.bombController.active THEN handleBombClick(s, pos)
  ELSE IF isMegaBomb(s.boardModel, pos[1], pos[2]) THEN handleMegaBombClick(s, pos)
  ELSE handleNormalTileClick(s, pos)

\* onBoosterTeleportClick toggling the mode without asking for a charge.
onBoosterTeleportClickUnchecked(s) ==
  IF ~isGameInteractive(s) THEN s
  ELSE [s EXCEPT !.bombController = bombReset(@),
                 !.teleportController = teleportToggle(@)]

onBoosterTeleportClick(s) ==
  IF ~isGameInteractive(s) THEN s
  ELSE IF ~canUseTeleport(s.data) THEN s
  ELSE [s EXCEPT !.bombController = bombReset(@),
                 !.teleportController = teleportToggle(@)]

\* onBoosterBombClick without the teleportController.reset() call.
onBoosterBombClickKeepingTeleport(s) ==
  IF ~isGameInteractive(s) THEN s
  ELSE IF ~canUseBomb(s.data) THEN s
  ELSE [s EXCEPT !.bombController = bombToggle(@)]

onBoosterBombClick(s) ==
  IF ~isGameInteractive(s) THEN s
  ELSE IF ~canUseBomb(s.data) THEN s
  ELSE [s EXCEPT !.teleportController = teleportReset(@),
                 !.bombController = bombToggle(@)]

\* onNoMovesPopupOk: the set of states it can end in, one per regenerated board.
onNoMovesPopupOk(s) ==
  IF ~isGameInteractive(s) THEN {s}
  ELSE
    LET used == useReshuffle(s.data) IN
    IF ~used.ok THEN {forceLoseByNoMoves(s)}
    ELSE { checkGameOver(ensureHasMoves(reshuffleBoard([s EXCEPT !.data = used.data], b)))
           : b \in randomFill(s.boardModel.rows, s.boardModel.cols) }

\* initNewGame carrying the booster charges over from the previous game.
initNewGameKeepingCharges(s, b) ==
  LET s1 == [s EXCEPT
               !.initialized = TRUE,
               !.isAnimating = FALSE,
               !.boardModel = b,
               !.viewGrid = renderFromGrid(b.grid),
               !.data = [newGameState EXCEPT !.bombsLeft = s.data.bombsLeft,
                                             !.teleportsLeft = s.data.teleportsLeft],
               !.teleportController = teleportReset(@),
               !.bombController = bombReset(@),
               !.winCalls = 0,
               !.loseCalls = 0,
               !.spent = NoneSpent,
               !.pending = [i \in 1..Len(@) |-> [@[i] EXCEPT !.stale = TRUE]]]
      s3 == log(s1, "onBombsChanged", s1.data.bombsLeft, {})
      s4 == log(s3, "onTeleportsChanged", s3.data.teleportsLeft, {})
  IN ensureHasMoves(s4)

\* initNewGame with the generated board b given.
initNewGame(s, b) ==
  LET s1 == [s EXCEPT
               !.initialized = TRUE,
               !.isAnimating = FALSE,
               !.boardModel = b,
               !.viewGrid = renderFromGrid(b.grid),
               !.data = newGameState,
               !.teleportController = teleportReset(@),
               !.bombController = bombReset(@),
               !.winCalls = 0,
               !.loseCalls = 0,
               !.spent = NoneSpent,
               !.pending = [i \in 1..Len(@) |-> [@[i] EXCEPT !.stale = TRUE]]]
      s3 == log(s1, "onBombsChanged", s1.data.bombsLeft, {})
      s4 == log(s3, "onTeleportsChanged", s3.data.teleportsLeft, {})
  IN ensureHasMoves(s4)

onRestartRequested(s, b) == initNewGame(s, b)

\* ------------------------------------------------------------ transitions
\* The state after `new GameController(...)`: no board and no game state yet
\* (the values of boardModel and data are placeholders until initNewGame).
Constructed(rows, cols) ==
  /\ initialized = FALSE
  /\ boardModel = [rows |-> rows, cols |-> cols,
                   grid |-> [p \in Positions(rows, cols) |-> Null],
                   specialGrid |-> [p \in Positions(rows, cols) |-> SpecialNone]]
  /\ data = newGameState
  /\ teleportController = [active |-> FALSE, first |-> NoPos]
  /\ bombController = [active |-> FALSE]
  /\ isAnimating = FALSE
  /\ viewGrid = [p \in Positions(rows, cols) |-> FALSE]
  /\ pending = <<>>
  /\ calls = <<>>
  /\ winCalls = 0
  /\ loseCalls = 0
  /\ spent = NoneSpent

Init == Constructed(Rows, Cols)

\* A handler ended in state s.  A handler that returned without changing
\* anything and without calling a collaborator is a stuttering step.
Becomes(s) ==
  /\ initialized' = s.initialized
  /\ boardModel' = s.boardModel
  /\ data' = s.data
  /\ teleportController' = s.teleportController
  /\ bombController' = s.bombController
  /\ isAnimating' = s.isAnimating
  /\ viewGrid' = s.viewGrid
  /\ pending' = s.pending
  /\ calls' = IF s = Cur THEN calls ELSE s.calls
  /\ winCalls' = s.winCalls
  /\ loseCalls' = s.loseCalls
  /\ spent' = s.spent

\* Inbound events.
TileClick(pos) ==
  \E s \in onTileClick(Cur, pos) : Becomes(s)

BoosterTeleportClick ==
  Becomes(onBoosterTeleportClick(Cur))

BoosterBombClick ==
  Becomes(onBoosterBombClick(Cur))

NoMovesPopupOk ==
  \E s \in onNoMovesPopupOk(Cur) : Becomes(s)

\* GameEntry.onLoad starts the first game before any event is delivered.
StartGame ==
  /\ ~initialized
  /\ \E b \in randomFill(boardModel.rows, boardModel.cols) : Becomes(initNewGame(Cur, b))

RestartRequested ==
  /\ initialized
  /\ Len(pending) < MaxPending
  /\ \E b \in randomFill(boardModel.rows, boardModel.cols) :
       Becomes(onRestartRequested(Cur, b))

\* Acknowledgements from the view layer: it runs one of the callbacks it holds.
AckRemove(i) ==
  /\ pending[i].kind = "remove"
  /\ \E s \in afterRemove([Cur EXCEPT !.pending = dropAt(@, i)], pending[i].updateBombs) :
       Becomes(s)

AckGravity(i) ==
  /\ pending[i].kind = "gravity"
  /\ Becomes(finalize([Cur EXCEPT !.pending = dropAt(@, i)], pending[i].updateBombs))

SwapDone(i) ==
  /\ pending[i].kind = "swap"
  /\ Becomes(onDone(Cur, i))

Next ==
  \/ StartGame
  \/ \E pos \in PosOf(boardModel) : TileClick(pos)
  \/ BoosterTeleportClick
  \/ BoosterBombClick
  \/ NoMovesPopupOk
  \/ RestartRequested
  \/ \E i \in 1..Len(pending) : AckRemove(i)
  \/ \E i \in 1..Len(pending) : AckGravity(i)
  \/ \E i \in 1..Len(pending) : SwapDone(i)

Spec == Init /\ [][Next]_vars

\* One game on a wider board, the view layer acknowledging each pipeline of
\* that game: the same handlers without restartRequested.
InitWide == Constructed(WideRows, WideCols)

NextWide ==
  \/ StartGame
  \/ \E pos \in PosOf(boardModel) : TileClick(pos)
  \/ BoosterTeleportClick
  \/ BoosterBombClick
  \/ NoMovesPopupOk
  \/ \E i \in 1..Len(pending) : AckRemove(i)
  \/ \E i \in 1..Len(pending) : AckGravity(i)
  \/ \E i \in 1..Len(pending) : SwapDone(i)

SpecWide == InitWide /\ [][NextWide]_vars

\* One game from construction to its end on the 2x2 board: every inbound
\* event but restartRequested, and the acknowledgements.
SpecGame == Init /\ [][NextWide]_vars

\* The whole controller, restarts and late acknowledgements included, on the
\* smallest board that still has a group to remove and a pair to swap.
InitRestart == Constructed(RestartRows, RestartCols)

SpecRestart == InitRestart /\ [][Next]_vars

\* BoardModel on its own: any grid of palette colours, MegaBomb markers and
\* empty cells, and the mutators the controller calls on it.  calls holds the
\* last BoardModel method run, with the size and the cells of what it
\* returned; the controller's other variables keep their constructed values.
AllBoards(rows, cols) ==
  { [rows |-> rows, cols |-> cols, grid |-> g,
     specialGrid |-> [p \in Positions(rows, cols) |-> SpecialNone]]
    : g \in [Positions(rows, cols) -> Cell] }

InitBoard ==
  /\ initialized = FALSE
  /\ boardModel \in AllBoards(BoardRows, BoardCols)
  /\ data = newGameState
  /\ teleportController = [active |-> FALSE, first |-> NoPos]
  /\ bombController = [active |-> FALSE]
  /\ isAnimating = FALSE
  /\ viewGrid = [p \in Positions(BoardRows, BoardCols) |-> FALSE]
  /\ pending = <<>>
  /\ calls = <<>>
  /\ winCalls = 0
  /\ loseCalls = 0
  /\ spent = NoneSpent

BoardBecomes(b, call) ==
  /\ boardModel' = b
  /\ calls' = <<call>>
  /\ UNCHANGED <<initialized, data, teleportController, bombController,
                 isAnimating, viewGrid, pending, winCalls, loseCalls, spent>>

BoardRemoveGroup(pos) ==
  LET group == findGroup(boardModel, pos[1], pos[2])
  IN BoardBecomes(removeGroup(boardModel, group),
                  Call("removeGroup", Len(group), SeqToSet(group)))

BoardApplyGravity ==
  LET gr == applyGravity(boardModel)
  IN BoardBecomes(gr.board,
                  Call("applyGravity", Len(gr.movements),
                       {gr.movements[i].to : i \in 1..Len(gr.movements)}))

BoardRefill ==
  \E draw \in [emptyCells(boardModel) -> Palette] :
    LET rf == refillEmptyCells(boardModel, draw)
    IN BoardBecomes(rf.board,
                    Call("refillEmptyCells", Len(rf.refilled),
                         {rf.refilled[i].pos : i \in 1..Len(rf.refilled)}))

NextBoard ==
  \/ \E pos \in PosOf(boardModel) : BoardRemoveGroup(pos)
  \/ BoardApplyGravity
  \/ BoardRefill

SpecBoard == InitBoard /\ [][NextBoard]_vars

\* BombController, MegaBombController and BoardModel called directly, on any
\* grid and with positions on the board or just outside it; calls holds
\* the last call with the number and the on-board cells it reports.
InitParts ==
  /\ initialized = FALSE
  /\ boardModel \in AllBoards(PartsRows, PartsCols)
  /\ data = newGameState
  /\ teleportController = [active |-> FALSE, first |-> NoPos]
  /\ bombController = [active |-> FALSE]
  /\ isAnimating = FALSE
  /\ viewGrid = [p \in Positions(PartsRows, PartsCols) |-> FALSE]
  /\ pending = <<>>
  /\ calls = <<>>
  /\ winCalls = 0
  /\ loseCalls = 0
  /\ spent = NoneSpent

\* The positions a caller may pass: the board and, on each of its four sides,
\* one position just outside it.
Around(b) ==
  PosOf(b) \cup {<<-1, 0>>, <<0, -1>>, <<b.rows, b.cols - 1>>, <<b.rows - 1, b.cols>>}

PartsBecomes(b, bc, call) ==
  /\ boardModel' = b
  /\ bombController' = bc
  /\ calls' = <<call>>
  /\ UNCHANGED <<initialized, data, teleportController, isAnimating, viewGrid,
                 pending, winCalls, loseCalls, spent>>

PartsBombToggle ==
  PartsBecomes(boardModel, bombToggle(bombController), Call("toggle", 0, {}))

PartsBombHandleClick(pos) ==
  LET hc == bombHandleClick(bombController, boardModel, pos[1], pos[2])
  IN PartsBecomes(boardModel, hc.controller,
                  Call("handleClick", Len(hc.cells), SeqToSet(hc.cells)))

PartsRemoveGroup(group) ==
  PartsBecomes(removeGroup(boardModel, group), bombController,
               Call("removeGroup", Len(group), SeqToSet(group) \cap PosOf(boardModel)))

PartsSwapTiles(a, c) ==
  PartsBecomes(swapTiles(boardModel, a, c), bombController,
               Call("swapTiles", 2, {a, c} \cap PosOf(boardModel)))

PartsCreateFromGroup(pos) ==
  LET res == createFromGroup(boardModel, findGroup(boardModel, pos[1], pos[2]), pos)
  IN PartsBecomes(res.board, bombController,
                  Call("createFromGroup", Len(res.removedCells),
                       SeqToSet(res.removedCells)))

PartsExplode(pos) ==
  LET res == explode(boardModel, pos[1], pos[2])
  IN PartsBecomes(res.board, bombController,
                  Call("explode", res.totalTiles, SeqToSet(res.removedCells)))

NextParts ==
  \/ PartsBombToggle
  \/ \E pos \in PosOf(boardModel) : PartsBombHandleClick(pos)
  \/ \E p, q \in Around(boardModel) : p # q /\ PartsRemoveGroup(<<p, q>>)
  \/ \E a, c \in Around(boardModel) : PartsSwapTiles(a, c)
  \/ \E pos \in PosOf(boardModel) : PartsCreateFromGroup(pos)
  \/ \E pos \in PosOf(boardModel) : PartsExplode(pos)

SpecParts == InitParts /\ [][NextParts]_vars

\* ------------------------------------------------------------- properties
GridFull(b) == \A p \in PosOf(b) : b.grid[p] # Null

\* The view layer runs one of the completion callbacks it holds.
Acknowledgement ==
  \E i \in 1..Len(pending) : AckRemove(i) \/ AckGravity(i) \/ SwapDone(i)

\* C1: at most one end-of-turn pipeline is in flight: from the moment the
\* controller enters Animating until the final acknowledgement is processed no
\* inbound event (tileClick, toggleTeleportBooster, toggleBombBooster,
\* confirmNoMovesDialog, restartRequested) is accepted, so the view layer never
\* holds the callbacks of two pipelines and every step taken while Animating is
\* the processing of an acknowledgement.
C1_OnePipelineInFlight ==
  [][ /\ isAnimating => Acknowledgement
      /\ Len(pending') <= 1 ]_vars

\* C2: in every game in which gameOver becomes true exactly one of onWin /
\* onLose is invoked, exactly once, and it matches gameOverReason: never more
\* than one invocation in a game, never the callback of the other reason, and
\* once the game is over and the controller is at rest the invocation has
\* happened.
C2_GameOverCallbackOnce ==
  /\ winCalls + loseCalls <= 1
  /\ winCalls = 1 => data.gameOver /\ data.gameOverReason = "win"
  /\ loseCalls = 1 => data.gameOver /\ data.gameOverReason = "lose"
  /\ (data.gameOver /\ ~isAnimating /\ pending = <<>>) => winCalls + loseCalls = 1

\* C3: while the controller is Animating or the game is over, tileClick,
\* toggleTeleportBooster, toggleBombBooster and confirmNoMovesDialog are no-ops:
\* each handler returns the state it was given (grid, turn state, both mode
\* flags and the teleport selection unchanged) and has called no collaborator.
C3_NonInteractiveNoOps ==
  (isAnimating \/ data.gameOver) =>
    /\ \A pos \in PosOf(boardModel) : onTileClick(Cur, pos) = {Cur}
    /\ onBoosterTeleportClick(Cur) = Cur
    /\ onBoosterBombClick(Cur) = Cur
    /\ onNoMovesPopupOk(Cur) = {Cur}

\* A state of C3's case: Animating, and without the guard a click, either
\* booster toggle and the dialog confirmation would all have acted.
C3_Witness ==
  /\ isAnimating
  /\ ~data.gameOver
  /\ canUseBomb(data)
  /\ canUseTeleport(data)
  /\ canUseReshuffle(data)
  /\ \E pos \in PosOf(boardModel) :
       Len(findGroup(boardModel, pos[1], pos[2])) >= MinGroupSize

\* C4: Teleport mode and Bomb mode are never both active; toggling Teleport on
\* while Bomb is active leaves Bomb inactive, and toggling Bomb on while
\* Teleport is active leaves Teleport inactive with its selection cleared.
C4_ModesExclusive ==
  /\ ~(teleportController.active /\ bombController.active)
  /\ bombController.active =>
       LET t == onBoosterTeleportClick(Cur)
       IN t.teleportController.active => ~t.bombController.active
  /\ teleportController.active =>
       LET t == onBoosterBombClick(Cur)
       IN t.bombController.active =>
            ~t.teleportController.active /\ t.teleportController.first = NoPos

\* A state of C4's case: Teleport mode is active with a cell selected, and
\* toggling the Bomb booster turns Bomb mode on.
C4_Witness ==
  /\ teleportController.active
  /\ teleportController.first # NoPos
  /\ onBoosterBombClick(Cur).bombController.active

\* ------------------------------------------- properties of the click paths
NoMode == ~teleportController.active /\ ~bombController.active

Occupied(b) == {p \in PosOf(b) : b.grid[p] # Null}

MegaBombs(b) == {p \in PosOf(b) : b.grid[p] = MegaBomb}

\* The grid of b with the given cells emptied and every other cell as it was.
Emptied(b, cells) == [p \in PosOf(b) |-> IF p \in cells THEN Null ELSE b.grid[p]]

\* The handler ended in s having asked the view to remove exactly `cells` and
\* waiting, Animating, for that removal to be acknowledged.
RemovalRequested(s, cells, updateBombs) ==
  /\ s.calls = <<Call("removeTileViews", Cardinality(cells), cells)>>
  /\ s.isAnimating
  /\ s.pending = Append(pending, Callback("remove", updateBombs, 0))

ChargesUnchanged(s) ==
  /\ s.data.bombsLeft = data.bombsLeft
  /\ s.data.teleportsLeft = data.teleportsLeft
  /\ s.data.reshufflesLeft = data.reshufflesLeft

\* The states the pipeline can be in after the removal acknowledgement
\* pending[i] has been processed (gravity and refill applied).
AfterRemoval(i) ==
  afterRemove([Cur EXCEPT !.pending = dropAt(@, i)], pending[i].updateBombs)

\* The state after the gravity/refill acknowledgement pending[i] has been
\* processed (the pipeline's finalize step).
AfterGravity(i) ==
  finalize([Cur EXCEPT !.pending = dropAt(@, i)], pending[i].updateBombs)

\* C5: a tile click accepted with no booster mode active on a non-MegaBomb
\* cell whose group G has minGroupSize <= |G| < megaBombMinGroupSize empties
\* exactly the cells of G (the grid before gravity is the old grid without G,
\* and G is the set handed to the view), adds |G| * baseScorePerTile to score,
\* takes exactly one move, changes no booster or reshuffle charge; the
\* pipeline's gravity and refill then leave every cell occupied and its final
\* step leaves the grid as it is.
C5_NormalClick ==
  /\ \A pos \in PosOf(boardModel) :
       LET group == findGroup(boardModel, pos[1], pos[2])
           G == SeqToSet(group)
       IN (/\ isGameInteractive(Cur)
           /\ NoMode
           /\ ~isMegaBomb(boardModel, pos[1], pos[2])
           /\ Len(group) >= MinGroupSize
           /\ Len(group) < MegaBombMinGroupSize)
          => \A s \in onTileClick(Cur, pos) :
               /\ s.boardModel.grid = Emptied(boardModel, G)
               /\ RemovalRequested(s, G, FALSE)
               /\ s.data.score = data.score + Len(group) * BaseScorePerTile
               /\ s.data.movesLeft = data.movesLeft - 1
               /\ ChargesUnchanged(s)
  /\ \A i \in 1..Len(pending) :
       (pending[i].kind = "remove" /\ ~pending[i].updateBombs)
       => \A s \in AfterRemoval(i) : GridFull(s.boardModel)
  /\ \A i \in 1..Len(pending) :
       (pending[i].kind = "gravity" /\ ~pending[i].updateBombs)
       => AfterGravity(i).boardModel = boardModel

\* A state of C5's case: a normal click on a group below the mega-bomb size has
\* just been accepted (one move taken, the group's cells empty, removal
\* requested).
C5_Witness ==
  /\ isAnimating
  /\ Len(calls) = 1
  /\ calls[1].name = "removeTileViews"
  /\ calls[1].n >= MinGroupSize
  /\ calls[1].n < MegaBombMinGroupSize
  /\ calls[1].cells = PosOf(boardModel) \ Occupied(boardModel)
  /\ MegaBombs(boardModel) = {}
  /\ data.movesLeft = StartMoves - 1
  /\ data.score = calls[1].n * BaseScorePerTile

\* C6: an accepted normal click at cell C whose group G has
\* |G| >= megaBombMinGroupSize leaves the MegaBomb marker at C, empties every
\* other cell of G and no cell outside G, hands exactly G \ {C} to the view,
\* adds |G| * baseScorePerTile to score and takes one move; gravity and refill
\* keep every MegaBomb tile on the board.
C6_MegaBombCreation ==
  /\ \A pos \in PosOf(boardModel) :
       LET group == findGroup(boardModel, pos[1], pos[2])
           G == SeqToSet(group)
       IN (/\ isGameInteractive(Cur)
           /\ NoMode
           /\ ~isMegaBomb(boardModel, pos[1], pos[2])
           /\ Len(group) >= MegaBombMinGroupSize)
          => \A s \in onTileClick(Cur, pos) :
               /\ s.boardModel.grid[pos] = MegaBomb
               /\ s.boardModel.grid =
                    [Emptied(boardModel, G \ {pos}) EXCEPT ![pos] = MegaBomb]
               /\ RemovalRequested(s, G \ {pos}, FALSE)
               /\ s.data.score = data.score + Len(group) * BaseScorePerTile
               /\ s.data.movesLeft = data.movesLeft - 1
  /\ \A i \in 1..Len(pending) :
       pending[i].kind = "remove"
       => \A s \in AfterRemoval(i) :
            Cardinality(MegaBombs(s.boardModel)) = Cardinality(MegaBombs(boardModel))

\* A state of C6's case: a group of mega-bomb size has just been clicked; the
\* clicked cell holds the MegaBomb and is not among the cells handed to the view.
C6_Witness ==
  /\ isAnimating
  /\ Len(calls) = 1
  /\ calls[1].name = "removeTileViews"
  /\ calls[1].n >= MegaBombMinGroupSize - 1
  /\ data.movesLeft = StartMoves - 1
  /\ data.score = (calls[1].n + 1) * BaseScorePerTile
  /\ \E p \in MegaBombs(boardModel) : p \notin calls[1].cells

\* C7: clicking a MegaBomb cell with no booster mode active empties every
\* occupied cell of the board, the bomb included (all of them handed to the
\* view), adds occupiedCount * baseScorePerTile to score, leaves movesLeft,
\* bombsLeft, teleportsLeft and reshufflesLeft unchanged, and starts the
\* pipeline, whose gravity and refill fill the emptied board completely.
C7_MegaBombExplosion ==
  /\ \A pos \in PosOf(boardModel) :
       (/\ isGameInteractive(Cur)
        /\ NoMode
        /\ isMegaBomb(boardModel, pos[1], pos[2]))
       => \A s \in onTileClick(Cur, pos) :
            /\ Occupied(s.boardModel) = {}
            /\ RemovalRequested(s, Occupied(boardModel), FALSE)
            /\ s.data.score =
                 data.score + Cardinality(Occupied(boardModel)) * BaseScorePerTile
            /\ s.data.movesLeft = data.movesLeft
            /\ ChargesUnchanged(s)
  /\ \A i \in 1..Len(pending) :
       (pending[i].kind = "remove" /\ Occupied(boardModel) = {})
       => \A s \in AfterRemoval(i) :
            /\ GridFull(s.boardModel)
            /\ s.pending = Append(dropAt(pending, i),
                                  Callback("gravity", pending[i].updateBombs, 0))

\* A state of C7's case: a MegaBomb has just been clicked in a game in which no
\* bomb charge was used: the board is empty, every cell was handed to the view
\* and the score of a whole board was added on top of the bomb's creation.
C7_Witness ==
  /\ isAnimating
  /\ Occupied(boardModel) = {}
  /\ Len(calls) = 1
  /\ calls[1].name = "removeTileViews"
  /\ calls[1].cells = PosOf(boardModel)
  /\ data.bombsLeft = StartBombs
  /\ data.movesLeft = StartMoves - 1
  /\ data.score >= (MegaBombMinGroupSize + Cardinality(PosOf(boardModel)))
                     * BaseScorePerTile

\* C8: with Teleport mode active and cell A selected, a click on a cell B at
\* Manhattan distance 1 from A exchanges the contents of A and B, leaves every
\* other cell unchanged, decreases teleportsLeft by exactly 1, leaves score and
\* movesLeft unchanged, clears the selection and deactivates Teleport mode.
C8_TeleportSwap ==
  \A pos \in PosOf(boardModel) :
    LET A == teleportController.first IN
    (/\ isGameInteractive(Cur)
     /\ teleportController.active
     /\ A # NoPos
     /\ abs(A[1] - pos[1]) + abs(A[2] - pos[2]) = 1)
    => \A s \in onTileClick(Cur, pos) :
         /\ s.boardModel.grid =
              [p \in PosOf(boardModel) |->
                 IF p = A THEN boardModel.grid[pos]
                 ELSE IF p = pos THEN boardModel.grid[A]
                 ELSE boardModel.grid[p]]
         /\ s.boardModel.specialGrid =
              [p \in PosOf(boardModel) |->
                 IF p = A THEN boardModel.specialGrid[pos]
                 ELSE IF p = pos THEN boardModel.specialGrid[A]
                 ELSE boardModel.specialGrid[p]]
         /\ s.data.teleportsLeft = data.teleportsLeft - 1
         /\ s.data.score = data.score
         /\ s.data.movesLeft = data.movesLeft
         /\ s.teleportController = [active |-> FALSE, first |-> NoPos]

\* A state of C8's case: a swap has just been performed (its charge consumed and
\* reported, Teleport mode off, the swap animation awaited).
C8_Witness ==
  /\ isAnimating
  /\ ~teleportController.active
  /\ data.teleportsLeft = StartTeleports - 1
  /\ calls = <<Call("onTeleportsChanged", StartTeleports - 1, {})>>
  /\ \E i \in 1..Len(pending) : pending[i].kind = "swap" /\ ~pending[i].stale
  /\ \E p, q \in PosOf(boardModel) : boardModel.grid[p] # boardModel.grid[q]

\* The handler ended in s without touching the grid or the turn state, without
\* entering Animating and without calling a collaborator.
OnlySelectionChanged(s) ==
  /\ s.boardModel = boardModel
  /\ s.data = data
  /\ ~s.isAnimating
  /\ s.pending = pending
  /\ s.calls = <<>>

\* C9: in Teleport mode, selecting a first cell, clicking the selected cell
\* again (deselect), clicking a non-adjacent cell (reselect: the selection
\* moves to the new cell) and toggling the mode off all leave the grid and
\* every turn-state field unchanged and keep the controller out of Animating;
\* a teleport charge is consumed only by a swap click (a click on a cell
\* adjacent to the selected one), by no other click, toggle, dialog
\* confirmation or acknowledgement.
C9_TeleportSelection ==
  /\ (isGameInteractive(Cur) /\ teleportController.active) =>
       /\ \A pos \in PosOf(boardModel) :
            LET A == teleportController.first IN
            \A s \in onTileClick(Cur, pos) :
              /\ A = NoPos =>
                   /\ OnlySelectionChanged(s)
                   /\ s.teleportController = [active |-> TRUE, first |-> pos]
              /\ A = pos =>
                   /\ OnlySelectionChanged(s)
                   /\ s.teleportController = [active |-> TRUE, first |-> NoPos]
              /\ (A # NoPos /\ A # pos
                  /\ abs(A[1] - pos[1]) + abs(A[2] - pos[2]) # 1) =>
                   /\ OnlySelectionChanged(s)
                   /\ s.teleportController = [active |-> TRUE, first |-> pos]
       /\ LET s == onBoosterTeleportClick(Cur) IN
            /\ OnlySelectionChanged(s)
            /\ s.teleportController = [active |-> FALSE, first |-> NoPos]
  /\ \A pos \in PosOf(boardModel) : \A s \in onTileClick(Cur, pos) :
       s.data.teleportsLeft # data.teleportsLeft =>
         /\ teleportController.active
         /\ teleportController.first # NoPos
         /\ abs(teleportController.first[1] - pos[1])
              + abs(teleportController.first[2] - pos[2]) = 1
         /\ s.data.teleportsLeft = data.teleportsLeft - 1
  /\ onBoosterTeleportClick(Cur).data.teleportsLeft = data.teleportsLeft
  /\ onBoosterBombClick(Cur).data.teleportsLeft = data.teleportsLeft
  /\ \A s \in onNoMovesPopupOk(Cur) : s.data.teleportsLeft = data.teleportsLeft
  /\ \A i \in 1..Len(pending) :
       /\ pending[i].kind = "remove" =>
            \A s \in AfterRemoval(i) : s.data.teleportsLeft = data.teleportsLeft
       /\ pending[i].kind = "gravity" =>
            AfterGravity(i).data.teleportsLeft = data.teleportsLeft
       /\ pending[i].kind = "swap" =>
            onDone(Cur, i).data.teleportsLeft = data.teleportsLeft

\* A state of C9's case: Teleport mode is active with a cell selected, some
\* other cell is not adjacent to it, and no charge has been consumed.
C9_Witness ==
  /\ isGameInteractive(Cur)
  /\ teleportController.active
  /\ teleportController.first # NoPos
  /\ data.teleportsLeft = StartTeleports
  /\ \E pos \in PosOf(boardModel) :
       /\ pos # teleportController.first
       /\ ~isNeighbor(teleportController.first, pos)

\* The occupied cells of the grid within Chebyshev distance R of pos.
WithinChebyshev(b, pos, R) ==
  {p \in Occupied(b) : abs(p[1] - pos[1]) <= R /\ abs(p[2] - pos[2]) <= R}

\* C10: with Bomb mode active a tile click at pos empties exactly the occupied
\* in-grid cells within Chebyshev distance bombRadius of pos (they are the
\* cells handed to the view), decreases bombsLeft by exactly 1, adds
\* removedCount * baseScorePerTile to score, leaves movesLeft unchanged,
\* deactivates Bomb mode and starts the pipeline; the pipeline's final step
\* notifies onBombsChanged with the bomb count then current.
C10_BombClick ==
  /\ \A pos \in PosOf(boardModel) :
       (isGameInteractive(Cur) /\ ~teleportController.active /\ bombController.active)
       => \A s \in onTileClick(Cur, pos) :
            LET cells == WithinChebyshev(boardModel, pos, BombRadius) IN
            /\ s.boardModel.grid = Emptied(boardModel, cells)
            /\ RemovalRequested(s, cells, TRUE)
            /\ s.data.bombsLeft = data.bombsLeft - 1
            /\ s.data.score = data.score + Cardinality(cells) * BaseScorePerTile
            /\ s.data.movesLeft = data.movesLeft
            /\ ~s.bombController.active
  /\ \A i \in 1..Len(pending) :
       /\ (pending[i].kind = "remove" /\ pending[i].updateBombs) =>
            \A s \in AfterRemoval(i) : GridFull(s.boardModel)
       /\ (pending[i].kind = "gravity" /\ pending[i].updateBombs) =>
            LET s == AfterGravity(i) IN
            /\ Len(s.calls) >= 1
            /\ s.calls[1] = Call("onBombsChanged", data.bombsLeft, {})
            /\ s.data.bombsLeft = data.bombsLeft

\* A state of C10's case: a bomb has just been used on a board wider than its
\* blast: the cells in range are empty, the others are not.
C10_Witness ==
  /\ isAnimating
  /\ ~bombController.active
  /\ data.bombsLeft = StartBombs - 1
  /\ Len(calls) = 1
  /\ calls[1].name = "removeTileViews"
  /\ calls[1].cells = PosOf(boardModel) \ Occupied(boardModel)
  /\ Occupied(boardModel) # {}
  /\ data.score = calls[1].n * BaseScorePerTile
  /\ data.movesLeft = StartMoves

\* No two 4-adjacent occupied cells of b have the same colour.
NoEqualPair(b) ==
  \A p, q \in Occupied(b) :
    abs(p[1] - q[1]) + abs(p[2] - q[2]) = 1 => b.grid[p] # b.grid[q]

\* The game is stuck for good: not over, no equal adjacent pair, no reshuffle.
StuckWithoutReshuffle ==
  /\ initialized
  /\ ~data.gameOver
  /\ NoEqualPair(boardModel)
  /\ data.reshufflesLeft = 0

\* s is Cur declared lost, with the board and the reshuffle budget untouched.
LostInPlace(s) ==
  /\ s.data.gameOver
  /\ s.data.gameOverReason = "lose"
  /\ s.boardModel = boardModel
  /\ s.data.reshufflesLeft = 0

\* C11: if, at a move-availability check while the game is not over, the grid
\* has no pair of equal-coloured 4-adjacent cells and reshufflesLeft = 0, then
\* gameOver becomes true with reason lose, the grid is not regenerated and
\* reshufflesLeft stays 0.  The check runs in ensureHasMoves, which the final
\* step of the end-of-turn pipeline and the completion of a teleport swap call.
C11_StuckBoardLoses ==
  StuckWithoutReshuffle =>
    /\ LostInPlace(ensureHasMoves(Cur))
    /\ \A i \in 1..Len(pending) :
         /\ pending[i].kind = "gravity" => LostInPlace(AfterGravity(i))
         /\ pending[i].kind = "swap" /\ pending[i].finished = 1 =>
              LostInPlace(onDone(Cur, i))

\* A game lost on a stuck board with moves still left and no reshuffle.
C11_Witness ==
  /\ initialized
  /\ data.gameOver
  /\ data.gameOverReason = "lose"
  /\ data.movesLeft > 0
  /\ data.reshufflesLeft = 0
  /\ NoEqualPair(boardModel)
  /\ GridFull(boardModel)

\* The verdict carried by d follows the win-first rule.
WinFirst(d) ==
  d.score >= d.targetScore => d.gameOver /\ d.gameOverReason = "win"

\* C12: win takes priority over lose: whenever an applyGroup or applyBomb
\* brings score >= targetScore, gameOverReason is win even if the same action
\* brought movesLeft to 0; the reason lose is set by them only when
\* movesLeft <= 0 and score < targetScore.  Checked for every group and blast
\* size on the game state of every reachable state, and on the state itself.
C12_WinBeforeLose ==
  /\ WinFirst(data)
  /\ ~data.gameOver =>
       \A n \in 0..Cardinality(PosOf(boardModel)) :
         LET g == applyGroup(data, n).data
             b == applyBomb(data, n).data
         IN /\ WinFirst(g)
            /\ WinFirst(b)
            /\ g.gameOver /\ g.gameOverReason = "lose" =>
                 g.movesLeft <= 0 /\ g.score < g.targetScore
            /\ b.gameOver /\ b.gameOverReason = "lose" =>
                 b.movesLeft <= 0 /\ b.score < b.targetScore

\* A game won by its last move.
C12_Witness ==
  /\ data.gameOver
  /\ data.gameOverReason = "win"
  /\ data.movesLeft = 0
  /\ data.score >= data.targetScore

\* Every state an inbound event other than restartRequested, or the
\* processing of an acknowledgement, can lead to from the current state.
EventOutcomes ==
  UNION { onTileClick(Cur, pos) : pos \in PosOf(boardModel) }
  \cup {onBoosterTeleportClick(Cur), onBoosterBombClick(Cur)}
  \cup onNoMovesPopupOk(Cur)
  \cup UNION { IF pending[i].kind = "remove" THEN AfterRemoval(i)
               ELSE IF pending[i].kind = "gravity" THEN {AfterGravity(i)}
               ELSE {onDone(Cur, i)} : i \in 1..Len(pending) }

\* C13: GameOver is terminal within a game: once gameOver is true, score,
\* movesLeft, reshufflesLeft, bombsLeft, teleportsLeft and gameOverReason
\* never change (win never turns into lose or vice versa) under any inbound
\* event or acknowledgement other than restartRequested; the GameState
\* operations and forceLoseByNoMoves are no-ops on a finished game.
C13_GameOverTerminal ==
  data.gameOver =>
    /\ \A s \in EventOutcomes : s.data = data
    /\ \A n \in 0..Cardinality(PosOf(boardModel)) :
         /\ applyGroup(data, n) = [data |-> data, gained |-> 0]
         /\ applyBomb(data, n) = [data |-> data, gained |-> 0]
    /\ useReshuffle(data) = [ok |-> FALSE, data |-> data]
    /\ useBomb(data) = [ok |-> FALSE, data |-> data]
    /\ useTeleport(data) = [ok |-> FALSE, data |-> data]
    /\ forceLoseByNoMoves(Cur).data = data
    /\ ensureHasMoves(Cur).data = data

\* A game already won whose last turn is still to be finalized, on a refilled
\* board that has no equal adjacent pair.
C13_Witness ==
  /\ data.gameOver
  /\ data.gameOverReason = "win"
  /\ isAnimating
  /\ \E i \in 1..Len(pending) : pending[i].kind = "gravity"
  /\ GridFull(boardModel)
  /\ NoEqualPair(boardModel)

\* C14: in every reachable state movesLeft, reshufflesLeft, bombsLeft and
\* teleportsLeft are all >= 0; useReshuffle, useBomb and useTeleport return
\* false and change no field when the corresponding charge is 0 or the game
\* is over, and otherwise decrement exactly that one charge by 1.
C14_ChargesNeverNegative ==
  /\ data.movesLeft >= 0
  /\ data.reshufflesLeft >= 0
  /\ data.bombsLeft >= 0
  /\ data.teleportsLeft >= 0
  /\ useReshuffle(data) =
       IF data.gameOver \/ data.reshufflesLeft = 0
         THEN [ok |-> FALSE, data |-> data]
       ELSE [ok |-> TRUE,
             data |-> [data EXCEPT !.reshufflesLeft = data.reshufflesLeft - 1]]
  /\ useBomb(data) =
       IF data.gameOver \/ data.bombsLeft = 0
         THEN [ok |-> FALSE, data |-> data]
       ELSE [ok |-> TRUE,
             data |-> [data EXCEPT !.bombsLeft = data.bombsLeft - 1]]
  /\ useTeleport(data) =
       IF data.gameOver \/ data.teleportsLeft = 0
         THEN [ok |-> FALSE, data |-> data]
       ELSE [ok |-> TRUE,
             data |-> [data EXCEPT !.teleportsLeft = data.teleportsLeft - 1]]

\* A running game that has spent every booster charge and every reshuffle.
C14_Witness ==
  /\ initialized
  /\ ~data.gameOver
  /\ data.reshufflesLeft = 0
  /\ data.bombsLeft = 0
  /\ data.teleportsLeft = 0
  /\ data.movesLeft > 0

\* C15: between two restarts, across every transition, score never decreases
\* and movesLeft, reshufflesLeft, bombsLeft and teleportsLeft never increase.
\* Stated for every inbound event other than restartRequested and every
\* acknowledgement, in every reachable state of a started game.
C15_Monotone ==
  initialized =>
    \A s \in EventOutcomes :
      /\ s.data.score >= data.score
      /\ s.data.movesLeft <= data.movesLeft
      /\ s.data.reshufflesLeft <= data.reshufflesLeft
      /\ s.data.bombsLeft <= data.bombsLeft
      /\ s.data.teleportsLeft <= data.teleportsLeft

\* A game in which the score has grown and every counter has gone down.
C15_Witness ==
  /\ initialized
  /\ data.score > 0
  /\ data.movesLeft < StartMoves
  /\ data.reshufflesLeft < ReshuffleLimit
  /\ data.bombsLeft < StartBombs
  /\ data.teleportsLeft < StartTeleports

\* The cells whose click, with no booster mode active, is an ordinary group
\* click on a group too small to be removed.
TooSmallToRemove ==
  { pos \in PosOf(boardModel) :
      /\ ~isMegaBomb(boardModel, pos[1], pos[2])
      /\ Len(findGroup(boardModel, pos[1], pos[2])) < MinGroupSize }

\* C16: canRemoveGroup(size) is false whenever gameOver is true or
\* size < minGroupSize, and in exactly those cases applyGroup(size) returns 0
\* and changes neither score nor movesLeft nor the game-over fields (in the
\* other cases it gains points and takes a move); a tile click whose group
\* fails canRemoveGroup changes nothing and starts no pipeline.
C16_SmallGroupRefused ==
  /\ \A size \in 0..Cardinality(PosOf(boardModel)) :
       LET r == applyGroup(data, size) IN
       IF data.gameOver \/ size < MinGroupSize
         THEN /\ ~canRemoveGroup(data, size)
              /\ r.gained = 0
              /\ r.data = data
       ELSE /\ canRemoveGroup(data, size)
            /\ r.gained > 0
            /\ r.data.score = data.score + r.gained
            /\ r.data.movesLeft = data.movesLeft - 1
  /\ isGameInteractive(Cur) /\ NoMode =>
       \A pos \in TooSmallToRemove : onTileClick(Cur, pos) = {Cur}

\* A running game, idle with no booster mode, showing a tile that has no
\* neighbour of its colour next to tiles that do form a group.
C16_Witness ==
  /\ isGameInteractive(Cur)
  /\ NoMode
  /\ TooSmallToRemove # {}
  /\ TooSmallToRemove # PosOf(boardModel)
  /\ data.movesLeft < StartMoves

\* The colours of the occupied cells of column col, top to bottom.
ColumnColors(b, col) ==
  SelectSeq([i \in 1..b.rows |-> b.grid[<<i - 1, col>>]], LAMBDA c : c # Null)

\* C17: for any grid (with arbitrary empty cells), applyGravity leaves the
\* number of occupied cells unchanged and, in every column, leaves the
\* top-to-bottom sequence of colours of the occupied cells unchanged; no tile
\* changes column (every reported movement stays in its column and carries the
\* colour of the cell it starts from).
C17_GravityKeepsColumns ==
  LET gr == applyGravity(boardModel) IN
  /\ Cardinality(Occupied(gr.board)) = Cardinality(Occupied(boardModel))
  /\ \A col \in 0..(boardModel.cols - 1) :
       ColumnColors(gr.board, col) = ColumnColors(boardModel, col)
  /\ \A i \in 1..Len(gr.movements) :
       /\ gr.movements[i].from[2] = gr.movements[i].to[2]
       /\ gr.movements[i].color = boardModel.grid[gr.movements[i].from]
       /\ gr.movements[i].color = gr.board.grid[gr.movements[i].to]

\* applyGravity has just moved two tiles of different colours down one column,
\* which still has an empty cell on top.
C17_Witness ==
  /\ Len(calls) = 1
  /\ calls[1].name = "applyGravity"
  /\ \E col \in 0..(boardModel.cols - 1) :
       /\ {<<1, col>>, <<2, col>>} \subseteq calls[1].cells
       /\ boardModel.grid[<<0, col>>] = Null
       /\ boardModel.grid[<<1, col>>] # boardModel.grid[<<2, col>>]

\* C18: after refillEmptyCells no cell is empty; every cell that was occupied
\* before the call keeps its colour, every previously empty cell receives a
\* palette colour (never the MegaBomb marker), and the returned creation list
\* contains exactly the previously empty positions, each once, with the colour
\* now in the grid.  Stated for every outcome of the random draws.
C18_RefillFillsOnlyHoles ==
  \A draw \in [emptyCells(boardModel) -> Palette] :
    LET rf == refillEmptyCells(boardModel, draw)
        created == {rf.refilled[i].pos : i \in 1..Len(rf.refilled)}
    IN /\ GridFull(rf.board)
       /\ \A p \in Occupied(boardModel) : rf.board.grid[p] = boardModel.grid[p]
       /\ \A p \in PosOf(boardModel) \ Occupied(boardModel) :
            /\ rf.board.grid[p] \in Palette
            /\ rf.board.grid[p] # MegaBomb
       /\ created = PosOf(boardModel) \ Occupied(boardModel)
       /\ Len(rf.refilled) = Cardinality(created)
       /\ \A i \in 1..Len(rf.refilled) :
            rf.refilled[i].color = rf.board.grid[rf.refilled[i].pos]

\* refillEmptyCells has just created tiles of two colours on a board that
\* kept a MegaBomb and a regular tile.
C18_Witness ==
  /\ Len(calls) = 1
  /\ calls[1].name = "refillEmptyCells"
  /\ GridFull(boardModel)
  /\ \E p, q \in calls[1].cells : boardModel.grid[p] # boardModel.grid[q]
  /\ \E p, q \in PosOf(boardModel) \ calls[1].cells :
       boardModel.grid[p] = MegaBomb /\ boardModel.grid[q] \in Palette

\* p and q are 4-adjacent.
Adjacent(p, q) == abs(p[1] - q[1]) + abs(p[2] - q[2]) = 1

\* The least set of cells of b containing S and closed under stepping to a
\* 4-adjacent cell of the given colour.
RECURSIVE Closure(_, _, _)
Closure(b, color, S) ==
  LET more == {q \in PosOf(b) : b.grid[q] = color /\ \E p \in S : Adjacent(p, q)}
  IN IF more \subseteq S THEN S ELSE Closure(b, color, S \cup more)

\* C19: findGroup(pos) returns the empty list iff pos is out of bounds or
\* empty; otherwise it returns, without duplicates, exactly the maximal set of
\* cells reachable from pos through 4-adjacent steps over cells having pos's
\* colour (it contains pos, every member has that colour, no 4-neighbour of a
\* member with that colour is left out).  Start positions range over the grid
\* and the ring of cells just outside it.
C19_FindGroupIsComponent ==
  \A row \in -1..boardModel.rows, col \in -1..boardModel.cols :
    LET pos == <<row, col>>
        group == findGroup(boardModel, row, col)
        cells == SeqToSet(group)
        inside == pos \in PosOf(boardModel)
    IN /\ group = <<>> <=> (~inside \/ boardModel.grid[pos] = Null)
       /\ Len(group) = Cardinality(cells)
       /\ group # <<>> =>
            /\ pos \in cells
            /\ cells \subseteq PosOf(boardModel)
            /\ \A p \in cells : boardModel.grid[p] = boardModel.grid[pos]
            /\ \A p \in cells, q \in PosOf(boardModel) :
                 Adjacent(p, q) /\ boardModel.grid[q] = boardModel.grid[pos]
                   => q \in cells
            /\ cells = Closure(boardModel, boardModel.grid[pos], {pos})

\* removeGroup has just emptied a group of four cells found by findGroup,
\* leaving two tiles of different colours.
C19_Witness ==
  /\ Len(calls) = 1
  /\ calls[1].name = "removeGroup"
  /\ calls[1].n = 4
  /\ calls[1].cells = PosOf(boardModel) \ Occupied(boardModel)
  /\ \E p, q \in Occupied(boardModel) : boardModel.grid[p] # boardModel.grid[q]

\* C20: hasAnyMoves(minGroupSize) returns true for every grid when
\* minGroupSize <= 1, and otherwise returns true iff some occupied cell has a
\* right or down in-bounds neighbour of equal colour, which is to say iff
\* some two 4-adjacent occupied cells have the same colour.
C20_HasAnyMoves ==
  \A minGroupSize \in 0..3 :
    LET pair(p, q) == /\ q \in PosOf(boardModel)
                      /\ boardModel.grid[p] # Null
                      /\ boardModel.grid[q] = boardModel.grid[p]
    IN /\ minGroupSize <= 1 => hasAnyMoves(boardModel, minGroupSize)
       /\ minGroupSize > 1 =>
            /\ hasAnyMoves(boardModel, minGroupSize) <=>
                 \E p \in PosOf(boardModel) :
                   pair(p, <<p[1], p[2] + 1>>) \/ pair(p, <<p[1] + 1, p[2]>>)
            /\ hasAnyMoves(boardModel, minGroupSize) <=> ~NoEqualPair(boardModel)

\* A refilled, full board whose only equal adjacent pair is a vertical one.
C20_Witness ==
  /\ Len(calls) = 1
  /\ calls[1].name = "refillEmptyCells"
  /\ calls[1].n > 0
  /\ GridFull(boardModel)
  /\ hasAnyMoves(boardModel, MinGroupSize)
  /\ \A p \in PosOf(boardModel) :
       p[2] + 1 < boardModel.cols =>
         boardModel.grid[<<p[1], p[2] + 1>>] # boardModel.grid[p]

\* C21: toggleTeleportBooster (resp. toggleBombBooster) is a no-op when
\* teleportsLeft = 0 (resp. bombsLeft = 0) or the orchestrator is not
\* interactive; otherwise it flips that mode's active flag, clears the
\* teleport selection and consumes no charge (nothing but the two mode
\* controllers changes), so two consecutive accepted toggles of the same
\* booster return it to inactive.
C21_BoosterToggles ==
  LET t == onBoosterTeleportClick(Cur)
      b == onBoosterBombClick(Cur)
  IN /\ IF ~isGameInteractive(Cur) \/ data.teleportsLeft = 0 THEN t = Cur
        ELSE /\ t.teleportController.active = ~teleportController.active
             /\ t.teleportController.first = NoPos
             /\ t = [Cur EXCEPT !.teleportController = t.teleportController,
                                !.bombController = t.bombController]
             /\ ~teleportController.active =>
                  ~onBoosterTeleportClick(t).teleportController.active
     /\ IF ~isGameInteractive(Cur) \/ data.bombsLeft = 0 THEN b = Cur
        ELSE /\ b.bombController.active = ~bombController.active
             /\ b.teleportController.first = NoPos
             /\ b = [Cur EXCEPT !.teleportController = b.teleportController,
                                !.bombController = b.bombController]
             /\ ~bombController.active =>
                  ~onBoosterBombClick(b).bombController.active

\* Teleport mode has been toggled on, with nothing selected, in a running
\* game that has no bomb left.
C21_Witness ==
  /\ isGameInteractive(Cur)
  /\ teleportController.active
  /\ teleportController.first = NoPos
  /\ data.teleportsLeft > 0
  /\ data.bombsLeft = 0

\* The names of the collaborator calls made by the handler that ended in s.
Called(s) == {s.calls[i].name : i \in 1..Len(s.calls)}

\* s carries the verdict of a move-availability check and terminal evaluation
\* run on its own board: a stuck board ends the game as lost when no reshuffle
\* is left and raises the no-moves dialog with the count left otherwise; a
\* playable board does neither.
MovesRechecked(s) ==
  IF ~NoEqualPair(s.boardModel)
    THEN ~s.data.gameOver /\ Called(s) \cap {"onNoMoves", "onLose", "onWin"} = {}
  ELSE IF s.data.reshufflesLeft = 0
    THEN /\ s.data.gameOver
         /\ s.data.gameOverReason = "lose"
         /\ "onLose" \in Called(s)
  ELSE /\ ~s.data.gameOver
       /\ Call("onNoMoves", s.data.reshufflesLeft, {}) \in SeqToSet(s.calls)

\* C22: confirmNoMovesDialog accepted while interactive: if reshufflesLeft > 0
\* it decreases reshufflesLeft by exactly 1, regenerates the grid so every
\* cell holds a palette colour, leaves both Teleport and Bomb modes inactive
\* with no selection, leaves score, movesLeft, bombsLeft and teleportsLeft
\* unchanged and re-runs the move-availability check; if reshufflesLeft = 0
\* it sets gameOver with reason lose and leaves the grid unchanged.
C22_ConfirmNoMoves ==
  isGameInteractive(Cur) =>
    \A s \in onNoMovesPopupOk(Cur) :
      IF data.reshufflesLeft > 0
        THEN /\ s.data.reshufflesLeft = data.reshufflesLeft - 1
             /\ \A p \in PosOf(s.boardModel) : s.boardModel.grid[p] \in Palette
             /\ s.viewGrid = [p \in PosOf(s.boardModel) |-> TRUE]
             /\ ~s.teleportController.active
             /\ s.teleportController.first = NoPos
             /\ ~s.bombController.active
             /\ s.data.score = data.score
             /\ s.data.movesLeft = data.movesLeft
             /\ s.data.bombsLeft = data.bombsLeft
             /\ s.data.teleportsLeft = data.teleportsLeft
             /\ MovesRechecked(s)
      ELSE /\ s.data.gameOver
           /\ s.data.gameOverReason = "lose"
           /\ s.boardModel = boardModel
           /\ s.data.reshufflesLeft = 0

\* The dialog has been confirmed and the regenerated board is stuck again
\* with no reshuffle left: the game is lost with every other counter intact.
C22_Witness ==
  /\ initialized
  /\ data.gameOver
  /\ data.gameOverReason = "lose"
  /\ data.reshufflesLeft = 0
  /\ data.movesLeft = StartMoves
  /\ data.score = 0
  /\ \A p \in PosOf(boardModel) : boardModel.grid[p] \in Palette
  /\ NoEqualPair(boardModel)

\* C23: a reshuffle (consumption of a reshuffle charge together with
\* regeneration of the grid) happens only in states where no matches remain,
\* i.e. where hasAnyMoves(minGroupSize) is false on the current grid: no step
\* consumes a reshuffle charge while a match is available.
C23_ReshuffleOnlyWhenStuck ==
  [][ data'.reshufflesLeft < data.reshufflesLeft
        => ~hasAnyMoves(boardModel, MinGroupSize) ]_vars

\* C24: restartRequested, from any state including GameOver, replaces grid
\* and turn state wholesale: afterwards score = 0, movesLeft = startMoves,
\* reshufflesLeft/bombsLeft/teleportsLeft equal their configured limits,
\* gameOver is false with no reason, both booster modes are inactive with no
\* selection, the orchestrator is not Animating, every cell holds a palette
\* colour, and onBombsChanged/onTeleportsChanged are notified with the fresh
\* counts.
C24_RestartReplacesAll ==
  \A b \in randomFill(boardModel.rows, boardModel.cols) :
    LET s == onRestartRequested(Cur, b) IN
    /\ s.initialized
    /\ s.data.score = 0
    /\ s.data.movesLeft = StartMoves
    /\ s.data.reshufflesLeft = ReshuffleLimit
    /\ s.data.bombsLeft = StartBombs
    /\ s.data.teleportsLeft = StartTeleports
    /\ s.data.targetScore = TargetScore
    /\ ~s.data.gameOver
    /\ s.data.gameOverReason = Null
    /\ ~s.teleportController.active
    /\ s.teleportController.first = NoPos
    /\ ~s.bombController.active
    /\ ~s.isAnimating
    /\ s.boardModel.grid = b.grid
    /\ \A p \in PosOf(s.boardModel) : s.boardModel.grid[p] \in Palette
    /\ s.viewGrid = [p \in PosOf(s.boardModel) |-> TRUE]
    /\ Len(s.calls) >= 2
    /\ s.calls[1] = Call("onBombsChanged", StartBombs, {})
    /\ s.calls[2] = Call("onTeleportsChanged", StartTeleports, {})

\* A restart has just been taken in the middle of a turn: the fresh game is
\* idle while the view still holds a callback of the game it replaced.
C24_Witness ==
  /\ initialized
  /\ \E i \in 1..Len(pending) : pending[i].stale
  /\ ~isAnimating
  /\ data.score = 0
  /\ data.movesLeft = StartMoves
  /\ data.bombsLeft = StartBombs
  /\ data.teleportsLeft = StartTeleports
  /\ Len(calls) >= 2
  /\ calls[1].name = "onBombsChanged"
  /\ calls[2].name = "onTeleportsChanged"

\* The handler that ended in s made none of the named calls.
Quiet(s, names) == Called(s) \cap names = {}

\* The callbacks s holds from position n on (those the handler handed to the
\* view) all continue a turn that does not update the bomb counter.
NoBombUpdateFrom(s, n) ==
  \A k \in n..Len(s.pending) : ~s.pending[k].updateBombs

\* C25: booster-charge callbacks fire only for the dimension touched by the
\* action: during a normal group removal or a MegaBomb explosion neither
\* onBombsChanged nor onTeleportsChanged is invoked, during a bomb turn
\* onTeleportsChanged is not invoked, and during a teleport swap
\* onBombsChanged is not invoked.  A turn is the accepted click together with
\* the processing of its acknowledgements; only a bomb turn's callbacks carry
\* updateBombs.
C25_CallbacksByDimension ==
  /\ isGameInteractive(Cur) =>
       \A pos \in PosOf(boardModel) : \A s \in onTileClick(Cur, pos) :
         IF teleportController.active
           THEN Quiet(s, {"onBombsChanged"}) /\ NoBombUpdateFrom(s, Len(pending) + 1)
         ELSE IF bombController.active
           THEN Quiet(s, {"onTeleportsChanged"})
         ELSE /\ Quiet(s, {"onBombsChanged", "onTeleportsChanged"})
              /\ NoBombUpdateFrom(s, Len(pending) + 1)
  /\ \A i \in 1..Len(pending) :
       LET after == IF pending[i].kind = "remove" THEN AfterRemoval(i)
                    ELSE IF pending[i].kind = "gravity" THEN {AfterGravity(i)}
                    ELSE {onDone(Cur, i)}
       IN \A s \in after :
            /\ Quiet(s, {"onTeleportsChanged"})
            /\ pending[i].kind = "swap" => Quiet(s, {"onBombsChanged"})
            /\ ~pending[i].updateBombs => Quiet(s, {"onBombsChanged"})
            /\ ~pending[i].updateBombs /\ pending[i].kind # "swap" =>
                 NoBombUpdateFrom(s, Len(pending))

\* A MegaBomb has been exploded and its turn is waiting for the removal to be
\* acknowledged.
C25_Witness ==
  /\ isAnimating
  /\ data.bombsLeft = StartBombs
  /\ data.movesLeft < StartMoves
  /\ Occupied(boardModel) = {}
  /\ \E i \in 1..Len(pending) :
       pending[i].kind = "remove" /\ ~pending[i].updateBombs

\* The cells whose click, in the current state, completes a teleport swap.
SwapTargets ==
  IF isGameInteractive(Cur) /\ teleportController.active
       /\ teleportController.first # NoPos
    THEN {pos \in PosOf(boardModel) : Adjacent(teleportController.first, pos)}
  ELSE {}

\* The state in which a swap with pos hands over to the end of the turn: the
\* tiles exchanged, Teleport mode off, the charge taken and reported.
Swapped(pos) ==
  log([Cur EXCEPT
         !.boardModel = swapTiles(boardModel, teleportController.first, pos),
         !.teleportController = [active |-> FALSE, first |-> NoPos],
         !.data = useTeleport(data).data],
      "onTeleportsChanged", useTeleport(data).data.teleportsLeft, {})

\* C26 as claimed: a completed teleport swap runs the same end-of-turn
\* pipeline as the other three trigger paths with an empty removed set (enter
\* Animating, applyGravity and refillEmptyCells, await the acknowledgement,
\* move-availability check and terminal evaluation, back to Idle): the swap
\* click ends where applyBoardChangesAndEndTurn with no removed cells ends.
C26_SwapRunsCommonPipeline ==
  \A pos \in SwapTargets :
    onTileClick(Cur, pos) \subseteq applyBoardChangesAndEndTurn(Swapped(pos), FALSE, <<>>)

\* C26 amended: a completed teleport swap runs its own end of turn, not the
\* common pipeline: with both tile views present the orchestrator enters
\* Animating and awaits the two swap animations, the grid keeping exactly the
\* swapped contents (no gravity, no refill, no removal request, no callback
\* besides onTeleportsChanged); the first acknowledgement only counts; after
\* the second the view is re-rendered from the unchanged grid, the
\* move-availability check and terminal evaluation run, and it returns to
\* Idle.  With a tile view missing the re-render and the two checks run at
\* once, without Animating.
C26_SwapOwnEndOfTurn ==
  /\ \A pos \in SwapTargets :
       LET A == teleportController.first
           sw == Swapped(pos)
       IN \A s \in onTileClick(Cur, pos) :
            /\ s.boardModel = sw.boardModel
            /\ Cardinality(Occupied(s.boardModel)) = Cardinality(Occupied(boardModel))
            /\ s.teleportController = [active |-> FALSE, first |-> NoPos]
            /\ IF viewGrid[A] /\ viewGrid[pos]
                 THEN /\ s.isAnimating
                      /\ s.pending = Append(pending, Callback("swap", FALSE, 0))
                      /\ s.calls = sw.calls
                      /\ s.viewGrid = viewGrid
               ELSE /\ ~s.isAnimating
                    /\ s.pending = pending
                    /\ s.viewGrid = renderFromGrid(s.boardModel.grid)
                    /\ MovesRechecked(s)
  /\ \A i \in 1..Len(pending) :
       pending[i].kind = "swap" =>
         LET s == onDone(Cur, i) IN
         IF pending[i].finished = 0
           THEN s = [Cur EXCEPT !.pending[i].finished = 1]
         ELSE /\ ~s.isAnimating
              /\ s.pending = dropAt(pending, i)
              /\ s.boardModel = boardModel
              /\ s.viewGrid = renderFromGrid(boardModel.grid)
              /\ Quiet(s, {"removeTileViews", "onBombsChanged", "onTeleportsChanged"})
              /\ initialized /\ ~data.gameOver => MovesRechecked(s)

\* A swap has left the board without any equal adjacent pair and one of its
\* two animations has been acknowledged.
C26_Witness ==
  /\ isAnimating
  /\ ~data.gameOver
  /\ data.teleportsLeft < StartTeleports
  /\ GridFull(boardModel)
  /\ NoEqualPair(boardModel)
  /\ \E i \in 1..Len(pending) : pending[i].kind = "swap" /\ pending[i].finished = 1

\* C27 as claimed: in every reachable state no two MegaBomb tiles are
\* 4-adjacent, so findGroup on a MegaBomb cell returns exactly that one cell.
C27_NoAdjacentMegaBombs ==
  \A p \in MegaBombs(boardModel) :
    /\ \A q \in MegaBombs(boardModel) : ~Adjacent(p, q)
    /\ findGroup(boardModel, p[1], p[2]) = <<p>>

\* C27 amended: MegaBomb tiles can be 4-adjacent.  Creating a MegaBomb empties
\* every other cell of its source group, so the new MegaBomb touches no tile of
\* that group, but a MegaBomb already next to the clicked cell stays where it
\* is; findGroup on a MegaBomb cell returns the 4-connected set of MegaBomb
\* cells around it, which is that one cell exactly when no neighbour holds a
\* MegaBomb.
C27_MegaBombGroup ==
  /\ \A p \in MegaBombs(boardModel) :
       LET group == findGroup(boardModel, p[1], p[2])
       IN /\ Len(group) = Cardinality(SeqToSet(group))
          /\ SeqToSet(group) = Closure(boardModel, MegaBomb, {p})
          /\ group = <<p>> <=> \A q \in MegaBombs(boardModel) : ~Adjacent(p, q)
  /\ \A pos \in PosOf(boardModel) :
       LET group == findGroup(boardModel, pos[1], pos[2])
           G == SeqToSet(group)
       IN (/\ isGameInteractive(Cur)
           /\ NoMode
           /\ ~isMegaBomb(boardModel, pos[1], pos[2])
           /\ Len(group) >= MegaBombMinGroupSize)
          => \A s \in onTileClick(Cur, pos) :
               /\ pos \in MegaBombs(s.boardModel)
               /\ \A q \in G \ {pos} : s.boardModel.grid[q] = Null
               /\ MegaBombs(s.boardModel) = MegaBombs(boardModel) \cup {pos}

\* Two MegaBomb tiles sit next to each other on a board that gravity and
\* refill have filled again, and findGroup returns both.
C27_Witness ==
  /\ ~isAnimating
  /\ GridFull(boardModel)
  /\ \E p, q \in MegaBombs(boardModel) :
       /\ Adjacent(p, q)
       /\ Len(findGroup(boardModel, p[1], p[2])) = 2

\* The view layer eventually runs every completion callback it has been
\* handed: each render instruction (removeTileViews, playGravityAndCreate,
\* playTeleportSwap) ends by invoking its onComplete.  This is
\* WF_vars(Acknowledgement) with ENABLED <<Acknowledgement>>_vars written out:
\* an acknowledgement is possible exactly when the view holds a callback.
AcknowledgementsFair ==
  []<>(pending = <<>>) \/ []<><<Acknowledgement>>_vars

\* One game under that assumption.
SpecFair == Init /\ [][NextWide]_vars /\ AcknowledgementsFair

\* The turn is over: the controller has left Animating, and if the game has
\* ended its onWin or onLose callback has been delivered.
TurnEnded == ~isAnimating /\ (data.gameOver => winCalls + loseCalls > 0)

\* C28: if every render instruction issued to the view layer is eventually
\* acknowledged, every accepted turn (normal removal, bomb, MegaBomb
\* explosion, teleport swap) eventually leaves Animating, ending in Idle or in
\* GameOver with its callback delivered; and Animating is left by nothing but
\* an acknowledgement, so without them the controller stays Animating forever.
C28_TurnsEnd ==
  /\ isAnimating ~> TurnEnded
  /\ [][isAnimating /\ ~isAnimating' => Acknowledgement]_vars

\* A turn that ended the game by winning has been completed and reported.
C28_Witness ==
  /\ ~isAnimating
  /\ data.gameOver
  /\ data.score >= TargetScore
  /\ winCalls > 0
  /\ pending = <<>>
  /\ GridFull(boardModel)

\* C29: within one game the number of reshuffle regenerations never exceeds
\* reshuffleLimit, the number of accepted normal group removals never exceeds
\* startMoves, the number of bomb explosions never exceeds startBombs and the
\* number of teleport swaps never exceeds startTeleports (so the
\* no-moves/reshuffle cycle cannot repeat indefinitely); each regeneration,
\* explosion and swap has taken exactly one charge of its own.
C29_BoundedByBudgets ==
  /\ spent.reshuffles <= ReshuffleLimit
  /\ spent.removals <= StartMoves
  /\ spent.bombs <= StartBombs
  /\ spent.swaps <= StartTeleports
  /\ initialized =>
       /\ spent.reshuffles = ReshuffleLimit - data.reshufflesLeft
       /\ spent.removals = StartMoves - data.movesLeft
       /\ spent.bombs = StartBombs - data.bombsLeft
       /\ spent.swaps = StartTeleports - data.teleportsLeft

\* A game has used its whole reshuffle budget and its whole booster budget
\* and is still running.
C29_Witness ==
  /\ ~data.gameOver
  /\ spent.reshuffles = ReshuffleLimit
  /\ spent.bombs = StartBombs
  /\ spent.swaps = StartTeleports

\* The callbacks that report the outcome of the end-of-turn checks.
TurnReports == {"onWin", "onLose", "onNoMoves"}

\* The boards that applyGravity followed by refillEmptyCells makes of b.
GravityThenRefill(b) ==
  LET gr == applyGravity(b)
  IN {refillEmptyCells(gr.board, draw).board : draw \in [emptyCells(gr.board) -> Palette]}

\* C30: the steps of every pipeline occur in order.  A click that starts a
\* pipeline leaves the removed cells empty and every other tile where it
\* was (gravity has not run), Animating set, nothing reported; the removal
\* acknowledgement applies applyGravity and then refillEmptyCells and hands
\* the movement+creation to the view, Animating untouched and nothing
\* reported (when no tile moved and none was created there is nothing to
\* await and the turn is finished at once); with an empty removed set this
\* happens without a removal request; the move-availability check and
\* onWin/onLose/onNoMoves come with the movement+creation acknowledgement,
\* which is also what clears Animating, the grid no longer changing.
C30_PipelineOrder ==
  /\ \A pos \in PosOf(boardModel) : \A s \in onTileClick(Cur, pos) :
       (s.pending # pending /\ s.pending[Len(s.pending)].kind = "remove") =>
         /\ Len(s.calls) > 0
         /\ s.calls[Len(s.calls)].name = "removeTileViews"
         /\ s.calls[Len(s.calls)].cells # {}
         /\ \A p \in s.calls[Len(s.calls)].cells : s.boardModel.grid[p] = Null
         /\ \A p \in PosOf(boardModel) \ (s.calls[Len(s.calls)].cells \cup {pos}) :
              s.boardModel.grid[p] = boardModel.grid[p]
         /\ s.isAnimating
         /\ Quiet(s, TurnReports)
  /\ \A i \in 1..Len(pending) :
       pending[i].kind = "remove" =>
         \A s \in AfterRemoval(i) :
           /\ s.boardModel \in GravityThenRefill(boardModel)
           /\ IF s.boardModel # boardModel
                THEN /\ s.pending = Append(dropAt(pending, i),
                                           Callback("gravity", pending[i].updateBombs, 0))
                     /\ s.isAnimating = isAnimating
                     /\ s.data = data
                     /\ Quiet(s, TurnReports)
              ELSE /\ s.pending = dropAt(pending, i)
                   /\ ~s.isAnimating
  /\ initialized =>
       \A s \in applyBoardChangesAndEndTurn(Cur, FALSE, <<>>) :
         /\ s.boardModel \in GravityThenRefill(boardModel)
         /\ Quiet(s, {"removeTileViews"})
         /\ \A k \in 1..Len(s.pending) :
              s.pending[k].kind = "remove" => k <= Len(pending) /\ s.pending[k] = pending[k]
  /\ \A i \in 1..Len(pending) :
       pending[i].kind = "gravity" =>
         LET s == AfterGravity(i)
         IN /\ ~s.isAnimating
            /\ s.boardModel = boardModel
            /\ s.pending = dropAt(pending, i)
            /\ ~data.gameOver => MovesRechecked(s)
            /\ data.gameOver /\ winCalls + loseCalls = 0 =>
                 Called(s) \cap {"onWin", "onLose"} # {}

\* The removal of a turn that ended the game has been acknowledged and
\* gravity and refill have filled the board: the controller is still
\* Animating and the end of the game has not been reported yet.
C30_Witness ==
  /\ isAnimating
  /\ data.gameOver
  /\ winCalls + loseCalls = 0
  /\ GridFull(boardModel)
  /\ \E i \in 1..Len(pending) : pending[i].kind = "gravity"

\* The row at which the tile at p comes to rest: the bottom row less the
\* number of tiles below p in its column.
RestRow(b, p) ==
  b.rows - 1 - Cardinality({r \in (p[1] + 1)..(b.rows - 1) : b.grid[<<r, p[2]>>] # Null})

\* C31: after applyGravity no empty cell lies below an occupied cell of the
\* same column; the returned movement list has exactly one entry per tile
\* whose row changed and none for a tile that stayed, each entry with from
\* and to in the same column, to.row > from.row, and color equal to the color
\* now stored at `to`.
C31_GravityCompacts ==
  LET gr == applyGravity(boardModel)
      moved == {p \in Occupied(boardModel) : RestRow(boardModel, p) # p[1]}
      froms == {gr.movements[i].from : i \in 1..Len(gr.movements)}
  IN /\ \A p \in Occupied(gr.board) :
          \A r \in (p[1] + 1)..(boardModel.rows - 1) : gr.board.grid[<<r, p[2]>>] # Null
     /\ froms = moved
     /\ Len(gr.movements) = Cardinality(moved)
     /\ \A i \in 1..Len(gr.movements) :
          LET mv == gr.movements[i]
          IN /\ mv.from[2] = mv.to[2]
             /\ mv.to[1] > mv.from[1]
             /\ mv.to[1] = RestRow(boardModel, mv.from)
             /\ mv.color = gr.board.grid[mv.to]

\* applyGravity has just moved one tile of a column and left the tile below
\* it in place.
C31_Witness ==
  /\ Len(calls) = 1
  /\ calls[1].name = "applyGravity"
  /\ calls[1].n = 1
  /\ \E col \in 0..(boardModel.cols - 1) :
       /\ <<1, col>> \in calls[1].cells
       /\ boardModel.grid[<<0, col>>] = Null
       /\ boardModel.grid[<<2, col>>] # Null

\* C32: BombController.handleClick never mutates the grid; when the mode is
\* active it deactivates it before returning, even if the returned set is
\* empty, so that a second click of the same activation returns nothing; when
\* the mode is inactive it returns the empty set and changes nothing.
C32_BombHandleClick ==
  /\ \A pos \in Around(boardModel) :
       LET hc == bombHandleClick(bombController, boardModel, pos[1], pos[2])
       IN /\ ~hc.controller.active
          /\ \A q \in Around(boardModel) :
               bombHandleClick(hc.controller, boardModel, q[1], q[2]) =
                 [controller |-> hc.controller, cells |-> <<>>]
          /\ ~bombController.active =>
               hc = [controller |-> bombController, cells |-> <<>>]
  /\ (Len(calls) = 1 /\ calls[1].name = "handleClick") =>
       /\ ~bombController.active
       /\ \A p \in calls[1].cells : boardModel.grid[p] # Null

\* handleClick has just returned the occupied cells around the click on a
\* board that also has an empty cell: the mode is off and the returned cells
\* still hold their tiles.
C32_Witness ==
  /\ Len(calls) = 1
  /\ calls[1].name = "handleClick"
  /\ calls[1].n > 0
  /\ ~bombController.active
  /\ calls[1].cells = Occupied(boardModel)
  /\ emptyCells(boardModel) # {}

\* C33: out-of-bounds coordinates are absorbed as no-ops: removeGroup ignores
\* the entries outside the board while emptying every listed cell on it and
\* touching no other cell; swapTiles with either position outside the board
\* leaves the whole grid unchanged; findGroup at a position outside the board
\* returns the empty set.
C33_OutOfBoundsNoOps ==
  /\ \A p, q \in Around(boardModel) :
       LET rb == removeGroup(boardModel, <<p, q>>)
       IN /\ DOMAIN rb.grid = PosOf(boardModel)
          /\ rb.grid = Emptied(boardModel, {p, q} \cap PosOf(boardModel))
          /\ rb.rows = boardModel.rows /\ rb.cols = boardModel.cols
          /\ (p \notin PosOf(boardModel) \/ q \notin PosOf(boardModel)) =>
               swapTiles(boardModel, p, q) = boardModel
  /\ \A p \in Around(boardModel) \ PosOf(boardModel) :
       /\ findGroup(boardModel, p[1], p[2]) = <<>>
       /\ removeGroup(boardModel, <<p>>) = boardModel

\* removeGroup has just been given one cell of the board and one position
\* outside it: the cell is empty and a tile is left elsewhere.
C33_Witness ==
  /\ Len(calls) = 1
  /\ calls[1].name = "removeGroup"
  /\ calls[1].n = 2
  /\ \E p \in PosOf(boardModel) :
       /\ calls[1].cells = {p}
       /\ boardModel.grid[p] = Null
       /\ Occupied(boardModel) # {}

\* The controller idle in a game on the current grid, every tile rendered.
InGame ==
  [Cur EXCEPT !.initialized = TRUE, !.viewGrid = renderFromGrid(boardModel.grid)]

\* C34: MegaBomb precondition failures mutate nothing: createFromGroup with
\* group.length < megaBombMinGroupSize returns created = false with an empty
\* removed set and the grid unchanged, and the orchestrator then removes the
\* whole group; explode on a cell that is not a MegaBomb returns none and
\* leaves the grid and the turn state unchanged.
C34_MegaBombPreconditions ==
  \A pos \in PosOf(boardModel) :
    LET group == findGroup(boardModel, pos[1], pos[2])
    IN /\ Len(group) < MegaBombMinGroupSize =>
            /\ createFromGroup(boardModel, group, pos) =
                 [created |-> FALSE, removedCells |-> <<>>, board |-> boardModel]
            /\ (Len(group) >= MinGroupSize /\ ~isMegaBomb(boardModel, pos[1], pos[2])) =>
                 \A s \in handleNormalTileClick(InGame, pos) :
                   s.boardModel.grid = Emptied(boardModel, SeqToSet(group))
       /\ ~isMegaBomb(boardModel, pos[1], pos[2]) =>
            /\ explode(boardModel, pos[1], pos[2]) =
                 [exploded |-> FALSE, removedCells |-> <<>>, totalTiles |-> 0,
                  board |-> boardModel]
            /\ handleMegaBombClick(InGame, pos) = {InGame}

\* createFromGroup has just refused a group: nothing is reported removed and
\* the board, which has two equal neighbours, holds no MegaBomb.
C34_Witness ==
  /\ Len(calls) = 1
  /\ calls[1].name = "createFromGroup"
  /\ calls[1].n = 0
  /\ MegaBombs(boardModel) = {}
  /\ GridFull(boardModel)
  /\ ~NoEqualPair(boardModel)

\* C35: whenever the orchestrator is not Animating (Idle or GameOver, after
\* the initial game has been created) every grid cell is occupied: empty cells
\* exist only between a removal and the refill step of the same pipeline.
C35_IdleGridFull ==
  (initialized /\ ~isAnimating) => GridFull(boardModel)

\* C36: in every reachable state where gameOver is false, score < targetScore
\* and movesLeft > 0: the end condition is re-evaluated after every score or
\* move change, so the game never continues past a satisfied win or lose
\* condition.
C36_NoPlayPastEnd ==
  ~data.gameOver => (data.score < data.targetScore /\ data.movesLeft > 0)

\* A game still running after a bomb explosion has raised the score to
\* within one smallest group of the target.
C36_Witness ==
  /\ ~data.gameOver
  /\ ~isAnimating
  /\ spent.bombs > 0
  /\ data.score > 0
  /\ data.score + MinGroupSize * BaseScorePerTile >= data.targetScore

\* C37: in every reachable state gameOver is true iff gameOverReason is win
\* or lose; reason win implies score >= targetScore and reason lose implies
\* score < targetScore.
C37_ReasonMatchesOutcome ==
  /\ data.gameOver <=> data.gameOverReason \in {"win", "lose"}
  /\ data.gameOverReason \in {"win", "lose", Null}
  /\ data.gameOverReason = "win" => data.score >= data.targetScore
  /\ data.gameOverReason = "lose" => data.score < data.targetScore

\* A game lost from the move-availability check, with moves left and points
\* scored.
C37_Witness ==
  /\ data.gameOver
  /\ data.gameOverReason = "lose"
  /\ data.movesLeft > 0
  /\ data.score > 0
  /\ data.reshufflesLeft = 0

\* C38: in every reachable state Teleport mode active implies
\* teleportsLeft >= 1 and Bomb mode active implies bombsLeft >= 1;
\* consequently the useTeleport() of a completed swap and the useBomb() of a
\* bomb click always succeed, and no swap or explosion happens without
\* consuming a charge.
C38_ModeImpliesCharge ==
  /\ teleportController.active => data.teleportsLeft >= 1
  /\ bombController.active => data.bombsLeft >= 1
  /\ (isGameInteractive(Cur) /\ teleportController.active) => useTeleport(data).ok
  /\ (isGameInteractive(Cur) /\ bombController.active) => useBomb(data).ok
  /\ \A pos \in SwapTargets : \A s \in onTileClick(Cur, pos) :
       /\ s.boardModel = swapTiles(boardModel, teleportController.first, pos)
       /\ s.data.teleportsLeft = data.teleportsLeft - 1
  /\ (isGameInteractive(Cur) /\ bombController.active) =>
       \A pos \in PosOf(boardModel) : \A s \in onTileClick(Cur, pos) :
         s.boardModel # boardModel => s.data.bombsLeft = data.bombsLeft - 1
  /\ spent.swaps = StartTeleports - data.teleportsLeft
  /\ spent.bombs = StartBombs - data.bombsLeft

\* Teleport mode is active with the last charge and a first tile selected,
\* after the last bomb has been used.
C38_Witness ==
  /\ teleportController.active
  /\ teleportController.first # NoPos
  /\ data.teleportsLeft = 1
  /\ data.bombsLeft = 0
  /\ spent.bombs = StartBombs

\* Number of MegaBomb tiles on a board.
MegaBombCount(b) == Cardinality(MegaBombs(b))

\* A click that handleNormalTileClick turns into a MegaBomb: the game is
\* interactive, no mode is active, the clicked tile is a regular one and its
\* group has at least megaBombMinGroupSize cells.
CreatesMegaBomb(pos) ==
  /\ isGameInteractive(Cur)
  /\ NoMode
  /\ ~isMegaBomb(boardModel, pos[1], pos[2])
  /\ canRemoveGroup(data, Len(findGroup(boardModel, pos[1], pos[2])))
  /\ canCreateFromSize(Len(findGroup(boardModel, pos[1], pos[2])))

\* C39: MegaBomb tiles arise only from createFromGroup.  randomFill and
\* refillEmptyCells assign palette colours only, so the grid holds no MegaBomb
\* right after game start, restart, a reshuffle, or the pipeline that follows
\* a MegaBomb explosion; each accepted click on a group of at least
\* megaBombMinGroupSize tiles raises the number of MegaBombs by exactly one,
\* and no other event raises it.
C39_MegaBombsOnlyCreated ==
  /\ \A b \in randomFill(boardModel.rows, boardModel.cols) :
       /\ \A p \in PosOf(b) : b.grid[p] \in Palette /\ b.specialGrid[p] = SpecialNone
       /\ MegaBombs(initNewGame(Cur, b).boardModel) = {}
       /\ MegaBombs(onRestartRequested(Cur, b).boardModel) = {}
  /\ \A s \in onNoMovesPopupOk(Cur) :
       /\ s.data.reshufflesLeft < data.reshufflesLeft => MegaBombs(s.boardModel) = {}
       /\ MegaBombCount(s.boardModel) <= MegaBombCount(boardModel)
  /\ \A i \in 1..Len(pending) :
       pending[i].kind = "remove"
       => \A s \in AfterRemoval(i) :
            /\ MegaBombCount(s.boardModel) = MegaBombCount(boardModel)
            /\ \A p \in emptyCells(applyGravity(boardModel).board) :
                 s.boardModel.grid[p] \in Palette
            /\ Occupied(boardModel) = {} => MegaBombs(s.boardModel) = {}
  /\ \A pos \in PosOf(boardModel) : \A s \in onTileClick(Cur, pos) :
       /\ (NoMode /\ isMegaBomb(boardModel, pos[1], pos[2]) /\ s # Cur)
          => Occupied(s.boardModel) = {}
       /\ IF CreatesMegaBomb(pos)
          THEN /\ MegaBombCount(s.boardModel) = MegaBombCount(boardModel) + 1
               /\ Head(s.calls).name = "removeTileViews"
          ELSE MegaBombCount(s.boardModel) <= MegaBombCount(boardModel)
  /\ \A s \in EventOutcomes : MegaBombCount(s.boardModel) <= MegaBombCount(boardModel) + 1
  /\ MegaBombs(boardModel) # {} => spent.removals >= 1

\* A MegaBomb was created by the game's one removal and then exploded; the
\* pipeline after the explosion has refilled the whole grid and the board
\* holds no MegaBomb.
C39_Witness ==
  /\ ~isAnimating
  /\ pending = <<>>
  /\ GridFull(boardModel)
  /\ MegaBombs(boardModel) = {}
  /\ spent.removals = 1
  /\ spent.bombs = 0
  /\ data.score >= (MegaBombMinGroupSize + Cardinality(PosOf(boardModel)))
                     * BaseScorePerTile


\* Outcomes of the handlers that run the move-availability check
\* (ensureHasMoves): the end of a pipeline, the end of a swap, a reshuffle and
\* the start of a game.
MoveCheckOutcomes ==
  UNION { IF pending[i].kind = "remove" THEN AfterRemoval(i)
          ELSE IF pending[i].kind = "gravity" THEN {AfterGravity(i)}
          ELSE {onDone(Cur, i)} : i \in 1..Len(pending) }
  \cup {s \in onNoMovesPopupOk(Cur) : s.data.reshufflesLeft < data.reshufflesLeft}
  \cup {initNewGame(Cur, b) : b \in randomFill(boardModel.rows, boardModel.cols)}

\* The handler that ended in s declared that no moves remain: it raised
\* onNoMoves, or it ended the game as lost with moves left (the lose that
\* updateGameOver sets needs movesLeft <= 0).
NoMovesDeclared(s) ==
  \/ "onNoMoves" \in Called(s)
  \/ /\ s.data.gameOver
     /\ s.data.gameOverReason = "lose"
     /\ s.data.movesLeft > 0
     /\ "onLose" \in Called(s)

\* C40: under minGroupSize = 2, whenever the orchestrator declares that no
\* moves remain (raises onNoMoves or forces the lose from the move check), no
\* tile click on the current grid would be accepted as a turn with both
\* modes inactive: no cell has a group of at least minGroupSize cells and no
\* cell is a MegaBomb.
C40_NoMovesMeansNoTurn ==
  \A s \in MoveCheckOutcomes :
    NoMovesDeclared(s) =>
      \A pos \in PosOf(s.boardModel) :
        /\ ~isMegaBomb(s.boardModel, pos[1], pos[2])
        /\ Len(findGroup(s.boardModel, pos[1], pos[2])) < MinGroupSize

\* The part of C40 about groups alone: a grid on which no moves were declared
\* has no group of at least minGroupSize cells of a regular colour.
C40_NoRegularGroup ==
  \A s \in MoveCheckOutcomes :
    NoMovesDeclared(s) =>
      \A pos \in PosOf(s.boardModel) :
        \/ isMegaBomb(s.boardModel, pos[1], pos[2])
        \/ Len(findGroup(s.boardModel, pos[1], pos[2])) < MinGroupSize

====
